---- MODULE Spec2Model ----
(***************************************************************************)
(* Model of the forecast application (src/app/page.tsx) and of the finance *)
(* utilities (src/next.config.ts: calculatePL, calculateCumulative,        *)
(* filterDataByPeriod).                                                    *)
(*                                                                         *)
(* JavaScript strings are sequences of characters.  A character is a       *)
(* one-letter TLA+ string; a character outside ASCII is written as the     *)
(* letter u followed by its code point, "u58F2".                           *)
(***************************************************************************)
EXTENDS Integers, Sequences, FiniteSets, TLC

VARIABLES state, previewRows, parsedRows, mapping, imports, edits, finInput, finOut

vars == <<state, previewRows, parsedRows, mapping, imports, edits, finInput, finOut>>

appVars == <<state, previewRows, parsedRows, mapping, imports, edits>>

finVars == <<finInput, finOut>>

(***************************************************************************)
(* Bounds of the model.                                                    *)
(***************************************************************************)
\* imports of a file that one behaviour performs
MaxImports == 2

\* edits of the plan, the categories and the period that one behaviour performs
MaxEdits == 1

\* length of the lists given to calculatePL and calculateCumulative
MaxMonths == 2

\* length of the lists given to filterDataByPeriod
MaxItems == 3

\* amounts of a MonthlyPL range over -MaxAmt..MaxAmt
MaxAmt == 1

\* rows of the long file exceed the preview by this many
ExtraRows == 1

\* edits of the plan that one behaviour of the plan tab performs
MaxPlanEdits == 3

\* handlers that run on one rendered state before their updates are applied
MaxPending == 2

(***************************************************************************)
(* Values.                                                                 *)
(***************************************************************************)
\* null, as in `fiscal: FiscalPeriod | null` and `grossMargin: number | null`
Null == [null |-> TRUE]

\* the value of a property that an object does not have, where the property
\* holds a string; it is no string, for a string is made of characters
Undefined == <<"undefined">>

\* null, as in `let minMonth: string | null = null`
NullString == <<"null">>

\* the empty string
Empty == <<>>

\* the items of an array
Range(arr) == { arr[i] : i \in 1..Len(arr) }

(***************************************************************************)
(* Strings.                                                                *)
(***************************************************************************)
UpperLetters ==
    <<"A", "B", "C", "D", "E", "F", "G", "H", "I", "J", "K", "L", "M",
      "N", "O", "P", "Q", "R", "S", "T", "U", "V", "W", "X", "Y", "Z">>

LowerLetters ==
    <<"a", "b", "c", "d", "e", "f", "g", "h", "i", "j", "k", "l", "m",
      "n", "o", "p", "q", "r", "s", "t", "u", "v", "w", "x", "y", "z">>

Digits == <<"0", "1", "2", "3", "4", "5", "6", "7", "8", "9">>

IsDigit(c) == \E i \in 1..10 : Digits[i] = c

DigitValue(c) == (CHOOSE i \in 1..10 : Digits[i] = c) - 1

\* the UTF-16 code unit of a character, which orders strings under < and >
CharCode(c) ==
    IF IsDigit(c) THEN 48 + DigitValue(c)
    ELSE IF \E i \in 1..26 : UpperLetters[i] = c
         THEN 64 + (CHOOSE i \in 1..26 : UpperLetters[i] = c)
    ELSE IF \E i \in 1..26 : LowerLetters[i] = c
         THEN 96 + (CHOOSE i \in 1..26 : LowerLetters[i] = c)
    ELSE CASE c = " " -> 32
           [] c = "," -> 44
           [] c = "-" -> 45
           [] c = "." -> 46
           [] c = "/" -> 47
           [] c = "_" -> 95
           [] OTHER   -> 19968  \* CJK ideographs lie above every ASCII char

\* the lower-case letter of every upper-case letter, and the converse
LowerOf == [c \in {UpperLetters[k] : k \in 1..26} |->
               LowerLetters[CHOOSE k \in 1..26 : UpperLetters[k] = c]]

UpperOf == [c \in {LowerLetters[k] : k \in 1..26} |->
               UpperLetters[CHOOSE k \in 1..26 : LowerLetters[k] = c]]

\* String.prototype.toLowerCase / toUpperCase, character by character
toLowerCase(s) ==
    [i \in 1..Len(s) |-> IF s[i] \in DOMAIN LowerOf THEN LowerOf[s[i]] ELSE s[i]]

toUpperCase(s) ==
    [i \in 1..Len(s) |-> IF s[i] \in DOMAIN UpperOf THEN UpperOf[s[i]] ELSE s[i]]

\* String.prototype.trim
RECURSIVE trimStart(_)
trimStart(s) ==
    IF s # Empty /\ Head(s) = " " THEN trimStart(Tail(s)) ELSE s

RECURSIVE trimEnd(_)
trimEnd(s) ==
    IF s # Empty /\ s[Len(s)] = " " THEN trimEnd(SubSeq(s, 1, Len(s) - 1)) ELSE s

trim(s) == trimEnd(trimStart(s))

\* RegExp.prototype.test for a pattern that is a literal: substring search
Contains(s, k) ==
    \E i \in 1..(Len(s) - Len(k) + 1) : SubSeq(s, i, i + Len(k) - 1) = k

\* a < b on strings: the first differing code unit decides, a proper prefix
\* is smaller
RECURSIVE StrLess(_, _)
StrLess(a, b) ==
    IF b = Empty THEN FALSE
    ELSE IF a = Empty THEN TRUE
    ELSE IF Head(a) # Head(b) THEN CharCode(Head(a)) < CharCode(Head(b))
    ELSE StrLess(Tail(a), Tail(b))

StrLeq(a, b) == a = b \/ StrLess(a, b)

\* the decimal value of a string of digits
RECURSIVE DigitsValue(_)
DigitsValue(s) ==
    IF s = Empty THEN 0
    ELSE 10 * DigitsValue(SubSeq(s, 1, Len(s) - 1)) + DigitValue(s[Len(s)])

AllDigits(s) == \A i \in 1..Len(s) : IsDigit(s[i])

\* a number below 100 written with two digits, as dayjs writes MM
TwoDigits(n) == <<Digits[(n \div 10) + 1], Digits[(n % 10) + 1]>>

\* a year written with four digits, as dayjs writes YYYY
FourDigits(n) ==
    <<Digits[((n \div 1000) % 10) + 1], Digits[((n \div 100) % 10) + 1],
      Digits[((n \div 10) % 10) + 1], Digits[(n % 10) + 1]>>

(***************************************************************************)
(* Finance utilities (src/next.config.ts).                                 *)
(***************************************************************************)
Abs(n) == IF n < 0 THEN -n ELSE n

RECURSIVE Gcd(_, _)
Gcd(a, b) == IF b = 0 THEN a ELSE Gcd(b, a % b)

\* a / b for b # 0: the quotient as a fraction in lowest terms with a
\* positive denominator, so that equal quotients are equal values
Divide(a, b) ==
    LET g == Gcd(Abs(a), Abs(b))
        s == IF b < 0 THEN -1 ELSE 1
    IN  [num |-> (s * a) \div g, den |-> (s * b) \div g]

\* data.f || 0 for an optional numeric field f
OrZero(data, f) == IF f \in DOMAIN data THEN data[f] ELSE 0

\* a variant with the guard sales > 0
MarginNullOnNonPositive(profit, sales) ==
    IF sales > 0 THEN Divide(profit, sales) ELSE Null

\* sales !== 0 ? profit / sales : null
Margin(profit, sales) ==
    IF sales # 0 THEN Divide(profit, sales) ELSE Null

\* a variant that adds the taxes
NetIncomeTaxesAdded(operatingProfit, data) ==
    operatingProfit + OrZero(data, "nonOperating")
        + OrZero(data, "extraordinary") + OrZero(data, "taxes")

\* operatingProfit + (nonOperating || 0) + (extraordinary || 0) - (taxes || 0)
NetIncome(operatingProfit, data) ==
    operatingProfit + OrZero(data, "nonOperating")
        + OrZero(data, "extraordinary") - OrZero(data, "taxes")

\* { ...data, grossProfit, operatingProfit, netIncome, grossMargin,
\*   operatingMargin }
calculatePL(data) ==
    LET grossProfit     == data.sales - data.cogs
        operatingProfit == grossProfit - data.sga
        netIncome       == NetIncome(operatingProfit, data)
        grossMargin     == Margin(grossProfit, data.sales)
        operatingMargin == Margin(operatingProfit, data.sales)
    IN  [f \in DOMAIN data \cup {"grossProfit", "operatingProfit", "netIncome",
                                 "grossMargin", "operatingMargin"} |->
            CASE f = "grossProfit"     -> grossProfit
              [] f = "operatingProfit" -> operatingProfit
              [] f = "netIncome"       -> netIncome
              [] f = "grossMargin"     -> grossMargin
              [] f = "operatingMargin" -> operatingMargin
              [] OTHER                 -> data[f]]

\* a variant that adds curr.cogs to the sga total
AccumulateSgaFromCogs(acc, curr) ==
    [sales         |-> acc.sales + curr.sales,
     cogs          |-> acc.cogs + curr.cogs,
     sga           |-> acc.sga + curr.cogs,
     nonOperating  |-> OrZero(acc, "nonOperating") + OrZero(curr, "nonOperating"),
     extraordinary |-> OrZero(acc, "extraordinary") + OrZero(curr, "extraordinary"),
     taxes         |-> OrZero(acc, "taxes") + OrZero(curr, "taxes")]

\* the reducer of calculateCumulative: one month added to the running totals
Accumulate(acc, curr) ==
    [sales         |-> acc.sales + curr.sales,
     cogs          |-> acc.cogs + curr.cogs,
     sga           |-> acc.sga + curr.sga,
     nonOperating  |-> OrZero(acc, "nonOperating") + OrZero(curr, "nonOperating"),
     extraordinary |-> OrZero(acc, "extraordinary") + OrZero(curr, "extraordinary"),
     taxes         |-> OrZero(acc, "taxes") + OrZero(curr, "taxes")]

\* the initial value of the reduction
ZeroTotals ==
    [sales |-> 0, cogs |-> 0, sga |-> 0,
     nonOperating |-> 0, extraordinary |-> 0, taxes |-> 0]

\* data.reduce(Accumulate, ZeroTotals): a left fold
RECURSIVE Reduce(_, _)
Reduce(data, acc) ==
    IF data = <<>> THEN acc ELSE Reduce(Tail(data), Accumulate(acc, Head(data)))

\* a variant without the guard: the quotient by 0 is NaN or Infinity, written
\* den |-> 0
CumulativeMarginUnguarded(profit, totalSales) ==
    IF totalSales # 0 THEN Divide(profit, totalSales)
    ELSE [num |-> profit, den |-> 0]

\* totals.sales !== 0 ? profit / totals.sales : null
CumulativeMargin(profit, totalSales) ==
    IF totalSales # 0 THEN Divide(profit, totalSales) ELSE Null

Cumulative == <<"c", "u", "m", "u", "l", "a", "t", "i", "v", "e">>

calculateCumulative(data) ==
    LET totals          == Reduce(data, ZeroTotals)
        grossProfit     == totals.sales - totals.cogs
        operatingProfit == grossProfit - totals.sga
        netIncome       == operatingProfit + OrZero(totals, "nonOperating")
                             + OrZero(totals, "extraordinary")
                             - OrZero(totals, "taxes")
    IN  [month           |-> Cumulative,
         sales           |-> totals.sales,
         cogs            |-> totals.cogs,
         sga             |-> totals.sga,
         nonOperating    |-> totals.nonOperating,
         extraordinary   |-> totals.extraordinary,
         taxes           |-> totals.taxes,
         isActual        |-> FALSE,
         grossProfit     |-> grossProfit,
         operatingProfit |-> operatingProfit,
         netIncome       |-> netIncome,
         grossMargin     |-> CumulativeMargin(grossProfit, totals.sales),
         operatingMargin |-> CumulativeMargin(operatingProfit, totals.sales)]

\* a variant that excludes the end month
InPeriodEndExclusive(item, startMonth, endMonth) ==
    StrLeq(startMonth, item.month) /\ StrLess(item.month, endMonth)

\* item.month >= startMonth && item.month <= endMonth
InPeriod(item, startMonth, endMonth) ==
    StrLeq(startMonth, item.month) /\ StrLeq(item.month, endMonth)

\* data.filter(item => InPeriod(item, startMonth, endMonth))
RECURSIVE filterDataByPeriod(_, _, _)
filterDataByPeriod(data, startMonth, endMonth) ==
    IF data = <<>> THEN <<>>
    ELSE LET rest == filterDataByPeriod(Tail(data), startMonth, endMonth)
         IN  IF InPeriod(Head(data), startMonth, endMonth)
             THEN <<Head(data)>> \o rest
             ELSE rest

(***************************************************************************)
(* The application (src/app/page.tsx): strings that occur in the files,    *)
(* the period inputs and the scenario of the help text.                    *)
(***************************************************************************)
M2024_12 == <<"2", "0", "2", "4", "-", "1", "2">>

M2025_01 == <<"2", "0", "2", "5", "-", "0", "1">>

M2025_02 == <<"2", "0", "2", "5", "-", "0", "2">>

M2025_03 == <<"2", "0", "2", "5", "-", "0", "3">>

M2025_02Slash == <<"2", "0", "2", "5", "/", "0", "2">>

Code4000 == <<"4", "0", "0", "0">>

Code5000 == <<"5", "0", "0", "0">>

Code1000 == <<"1", "0", "0", "0">>

Code6000 == <<"6", "0", "0", "0">>

Code4000Padded == <<" ", "4", "0", "0", "0", " ">>

Uriagedaka == <<"u58F2", "u4E0A", "u9AD8">>

UriageGenka == <<"u58F2", "u4E0A", "u539F", "u4FA1">>

Kyuryo == <<"u7D66", "u6599">>

SalesName == <<"S", "a", "l", "e", "s">>

CashName == <<"c", "a", "s", "h">>

Kashi == <<"u8CB8">>

Kari == <<"u501F">>

Nen == <<"u5E74">>

Tsuki == <<"u6708">>

Amt1000000 == <<"1", "0", "0", "0", "0", "0", "0">>

Amt300000 == <<"3", "0", "0", "0", "0", "0">>

Amt0 == <<"0">>

AmtMinus5 == <<"-", "5">>

Amt1Comma000 == <<"1", ",", "0", "0", "0">>

Amt1 == <<"1">>

Amt9 == <<"9">>

PL == <<"P", "L">>

BS == <<"B", "S">>

PLLower == <<"p", "l">>

DcC == <<"C">>

DcD == <<"D">>

DcLowerD == <<"d">>

HMonth == <<"m", "o", "n", "t", "h">>

HAccountCode == <<"a", "c", "c", "o", "u", "n", "t", "_", "c", "o", "d", "e">>

HAccountName == <<"a", "c", "c", "o", "u", "n", "t", "_", "n", "a", "m", "e">>

HAmount == <<"a", "m", "o", "u", "n", "t">>

HStatement == <<"s", "t", "a", "t", "e", "m", "e", "n", "t">>

HDc == <<"d", "c">>

(***************************************************************************)
(* Utilities of the application.                                           *)
(***************************************************************************)
\* a property of an object, undefined when the object lacks it
Lookup(obj, key) == IF key \in DOMAIN obj THEN obj[key] ELSE Undefined

\* a mapping without the keys outside S
Restrict(f, S) == IF S = {} THEN <<>> ELSE [k \in S |-> f[k]]

\* obj with obj[key] = value
Put(obj, key, value) ==
    [k \in DOMAIN obj \cup {key} |-> IF k = key THEN value ELSE obj[k]]

\* a variant without the ?? "": undefined becomes the text undefined
StringOfUndefined(v) ==
    IF v = Undefined THEN <<"u", "n", "d", "e", "f", "i", "n", "e", "d">> ELSE v

\* String(v ?? "")
StringOrEmpty(v) == IF v = Undefined THEN Empty ELSE v

\* s.replace(c, r): the first occurrence of the character c becomes r
RECURSIVE replace(_, _, _)
replace(s, c, r) ==
    IF s = Empty THEN Empty
    ELSE IF Head(s) = c THEN r \o Tail(s)
    ELSE <<Head(s)>> \o replace(Tail(s), c, r)

\* s.replace(/[,\s]/g, "")
RECURSIVE stripSeparators(_)
stripSeparators(s) ==
    IF s = Empty THEN Empty
    ELSE IF Head(s) \in {",", " "} THEN stripSeparators(Tail(s))
    ELSE <<Head(s)>> \o stripSeparators(Tail(s))

\* Number(s) followed by isFinite(n) ? n : 0, for strings over digits, sign
\* and letters: an optionally signed string of digits is its value, the
\* empty string is 0, anything else is NaN and becomes 0
NumberOrZero(s) ==
    IF s = Empty THEN 0
    ELSE IF AllDigits(s) THEN DigitsValue(s)
    ELSE IF Head(s) = "-" /\ Len(s) > 1 /\ AllDigits(Tail(s))
         THEN -DigitsValue(Tail(s))
    ELSE IF Head(s) = "+" /\ Len(s) > 1 /\ AllDigits(Tail(s))
         THEN DigitsValue(Tail(s))
    ELSE 0

\* toNumber of a cell of the parsed file (a string or undefined)
toNumber(v) ==
    IF v = Undefined THEN 0 ELSE NumberOrZero(stripSeparators(v))

(***************************************************************************)
(* dayjs, as the application uses it.  A valid date is the number of its    *)
(* month counted from year 0 (12 * year + month - 1); the day and the time *)
(* of day never reach format("YYYY-MM").                                   *)
(***************************************************************************)
InvalidDate == [valid |-> FALSE]

\* the parts of a string between the separators - and /
RECURSIVE SplitDate(_, _)
SplitDate(s, part) ==
    IF s = Empty THEN <<part>>
    ELSE IF Head(s) \in {"-", "/"} THEN <<part>> \o SplitDate(Tail(s), Empty)
    ELSE SplitDate(Tail(s), part \o <<Head(s)>>)

IsLeapYear(y) == (y % 4 = 0 /\ y % 100 # 0) \/ y % 400 = 0

DaysInMonth(idx) ==
    LET m == (idx % 12) + 1
    IN  IF m = 2 THEN (IF IsLeapYear(idx \div 12) THEN 29 ELSE 28)
        ELSE IF m \in {4, 6, 9, 11} THEN 30 ELSE 31

\* new Date(y, m, d) carries a day outside the month into the next or the
\* previous month
RECURSIVE CarryDay(_, _)
CarryDay(idx, day) ==
    IF day < 1 THEN idx - 1
    ELSE IF day > DaysInMonth(idx) THEN CarryDay(idx + 1, day - DaysInMonth(idx))
    ELSE idx

\* dayjs(t): t is parsed when it is YYYY, YYYY-M, YYYY/MM, YYYY-MM-DD and the
\* like (a year of four digits, then at most two parts of one or two
\* digits); every other string of the model is an invalid date
dayjs(t) ==
    LET parts == SplitDate(t, Empty)
        ok    == /\ Len(parts) \in 1..3
                 /\ Len(parts[1]) = 4
                 /\ \A i \in 1..Len(parts) : AllDigits(parts[i])
                 /\ \A i \in 2..Len(parts) : Len(parts[i]) \in 1..2
        year  == DigitsValue(parts[1])
        month == IF Len(parts) >= 2 THEN DigitsValue(parts[2]) - 1 ELSE 0
        day   == IF Len(parts) = 3 THEN DigitsValue(parts[3]) ELSE 1
    IN  IF ok THEN [valid |-> TRUE, month |-> CarryDay(12 * year + month, day)]
        ELSE InvalidDate

\* a variant that writes the month index of the date, which starts at 0
formatYYYYMMFromZero(d) ==
    FourDigits(d.month \div 12) \o <<"-">> \o TwoDigits(d.month % 12)

\* d.format("YYYY-MM")
formatYYYYMM(d) ==
    FourDigits(d.month \div 12) \o <<"-">> \o TwoDigits((d.month % 12) + 1)

\* while (cur.isBefore(end) || cur.isSame(end)) { push; cur = cur.add(1, "month") }
RECURSIVE MonthLoop(_, _)
MonthLoop(cur, end) ==
    IF cur.month <= end.month
    THEN <<formatYYYYMM(cur)>> \o MonthLoop([cur EXCEPT !.month = @ + 1], end)
    ELSE <<>>

DayOne == <<"-", "0", "1">>

monthRange(startMonth, endMonth) ==
    LET start == dayjs(startMonth \o DayOne)
        end   == dayjs(endMonth \o DayOne)
    IN  IF start.valid /\ end.valid THEN MonthLoop(start, end) ELSE <<>>

normalizeMonth(v) ==
    IF v = Undefined \/ v = Empty THEN Empty
    ELSE LET t  == trim(v)
             m  == dayjs(t)
             m2 == dayjs(replace(replace(t, Nen[1], <<"-">>), Tsuki[1], Empty))
         IN  IF m.valid THEN formatYYYYMM(m)
             ELSE IF m2.valid THEN formatYYYYMM(m2)
             ELSE t

(***************************************************************************)
(* Accounts.                                                               *)
(***************************************************************************)
RevenueKeywords ==
    << <<"u58F2", "u4E0A">>,
       <<"s", "a", "l", "e", "s">>,
       <<"r", "e", "v", "e", "n", "u", "e">>,
       <<"u53CE", "u76CA">>,
       <<"i", "n", "t", "e", "r", "e", "s", "t", " ", "i", "n", "c", "o", "m", "e">>,
       <<"o", "p", "e", "r", "a", "t", "i", "n", "g", " ", "i", "n", "c", "o", "m", "e">> >>
ExpenseKeywords ==
    << <<"u8CBB">>,
       <<"u539F", "u4FA1">>,
       <<"c", "o", "s", "t">>,
       <<"e", "x", "p", "e", "n", "s", "e">>,
       <<"u652F", "u6255">>,
       <<"u6E1B", "u4FA1", "u511F", "u5374">>,
       <<"u79DF", "u7A0E">>,
       <<"u5916", "u6CE8">>,
       <<"u5E83", "u544A">>,
       <<"u5730", "u4EE3">>,
       <<"u4EBA", "u4EF6">>,
       <<"u7D66", "u6599">>,
       <<"u8CC3", "u91D1">>,
       <<"u65C5", "u8CBB">>,
       <<"u901A", "u4FE1">>,
       <<"u6C34", "u9053">>,
       <<"u5149", "u71B1">> >>

MatchesAny(n, keywords) == \E i \in 1..Len(keywords) : Contains(n, keywords[i])

\* a variant that tests the expense keywords first
guessPLCategoryExpenseFirst(name) ==
    LET n == toLowerCase(name)
    IN  IF MatchesAny(n, ExpenseKeywords) THEN "Expense"
        ELSE IF MatchesAny(n, RevenueKeywords) THEN "Revenue"
        ELSE "Other"

\* n = name.toLowerCase(); the revenue pattern, then the expense pattern
guessPLCategory(name) ==
    LET n == toLowerCase(name)
    IN  IF MatchesAny(n, RevenueKeywords) THEN "Revenue"
        ELSE IF MatchesAny(n, ExpenseKeywords) THEN "Expense"
        ELSE "Other"

\* a variant that keeps the last item of every code (map.set without the
\* test map.has)
RECURSIVE uniqByCodeLastWins(_, _)
uniqByCodeLastWins(arr, seen) ==
    IF arr = <<>> THEN <<>>
    ELSE IF Head(arr).code \in seen THEN uniqByCodeLastWins(Tail(arr), seen)
    ELSE LET last == CHOOSE i \in 1..Len(arr) :
                         /\ arr[i].code = Head(arr).code
                         /\ \A j \in (i + 1)..Len(arr) : arr[j].code # Head(arr).code
         IN  <<arr[last]>>
                 \o uniqByCodeLastWins(Tail(arr), seen \cup {Head(arr).code})

\* uniqBy(arr, a => a.code): the first item of every code, in order
RECURSIVE uniqByCode(_, _)
uniqByCode(arr, seen) ==
    IF arr = <<>> THEN <<>>
    ELSE IF Head(arr).code \in seen THEN uniqByCode(Tail(arr), seen)
    ELSE <<Head(arr)>> \o uniqByCode(Tail(arr), seen \cup {Head(arr).code})

(***************************************************************************)
(* Import: column mapping (handleCSVFile) and row normalisation            *)
(* (importRows).                                                           *)
(***************************************************************************)
MonthKeys ==
    << <<"m", "o", "n", "t", "h">>,
       <<"y", "m">>,
       <<"d", "a", "t", "e">>,
       <<"u671F", "u9593">>,
       <<"u6708">>,
       <<"u4F1A", "u8A08", "u6708">>,
       <<"u4F1A", "u8A08", "u671F", "u9593">>,
       <<"u5E74", "u6708">> >>

AccountCodeKeys ==
    << <<"a", "c", "c", "o", "u", "n", "t", "_", "c", "o", "d", "e">>,
       <<"c", "o", "d", "e">>,
       <<"u79D1", "u76EE", "u30B3", "u30FC", "u30C9">>,
       <<"u52D8", "u5B9A", "u79D1", "u76EE", "u30B3", "u30FC", "u30C9">> >>

AccountNameKeys ==
    << <<"a", "c", "c", "o", "u", "n", "t", "_", "n", "a", "m", "e">>,
       <<"n", "a", "m", "e">>,
       <<"u79D1", "u76EE", "u540D">>,
       <<"u52D8", "u5B9A", "u79D1", "u76EE">>,
       <<"u52D8", "u5B9A", "u79D1", "u76EE", "u540D">> >>

AmountKeys ==
    << <<"a", "m", "o", "u", "n", "t">>,
       <<"u91D1", "u984D">>,
       <<"b", "a", "l", "a", "n", "c", "e">>,
       <<"u6B8B", "u9AD8">>,
       <<"u5408", "u8A08">>,
       <<"d", "e", "b", "i", "t">>,
       <<"c", "r", "e", "d", "i", "t">> >>

StatementKeys ==
    << <<"s", "t", "a", "t", "e", "m", "e", "n", "t">>,
       <<"u7A2E", "u985E">>,
       <<"u533A", "u5206">>,
       <<"u8CA1", "u52D9", "u8AF8", "u8868">>,
       <<"p", "l", "/", "b", "s">> >>

DcKeys ==
    << <<"d", "c">>,
       <<"u501F", "u8CB8">>,
       <<"u501F", "u65B9", "/", "u8CB8", "u65B9">>,
       <<"u501F", "u65B9", "u8CB8", "u65B9">>,
       <<"s", "i", "d", "e">> >>

\* rows.slice(0, 20)
PreviewLimit == 20

\* the keys k of lowerMap with a truthy lowerMap[k], after
\* headers.forEach(h => lowerMap[h.toLowerCase()] = h)
lowerMapKeys(headers) ==
    { toLowerCase(headers[i]) : i \in { j \in 1..Len(headers) : headers[j] # Empty } }

\* keys.find(k => lowerMap[k]): the first candidate that is a key of lowerMap;
\* it is the candidate that is returned, not the header
guess(keys, lowerMap) ==
    IF \E j \in 1..Len(keys) : keys[j] \in lowerMap
    THEN keys[CHOOSE j \in 1..Len(keys) :
                  keys[j] \in lowerMap /\ \A l \in 1..(j - 1) : keys[l] \notin lowerMap]
    ELSE Undefined

\* headers[i], undefined past the end
HeaderAt(headers, i) == IF i <= Len(headers) THEN headers[i] ELSE Undefined

\* a || b on strings and undefined
OrElse(a, b) == IF a = Undefined \/ a = Empty THEN b ELSE a

guessMapping(headers) ==
    LET lowerMap == lowerMapKeys(headers)
    IN  [month       |-> OrElse(guess(MonthKeys, lowerMap), HeaderAt(headers, 1)),
         accountCode |-> OrElse(guess(AccountCodeKeys, lowerMap),
                                OrElse(HeaderAt(headers, 2), HeaderAt(headers, 1))),
         accountName |-> OrElse(guess(AccountNameKeys, lowerMap),
                                OrElse(HeaderAt(headers, 3), HeaderAt(headers, 1))),
         amount      |-> OrElse(guess(AmountKeys, lowerMap),
                                OrElse(HeaderAt(headers, 4), HeaderAt(headers, 1))),
         statement   |-> OrElse(guess(StatementKeys, lowerMap),
                                OrElse(HeaderAt(headers, 5), HeaderAt(headers, 1))),
         dc          |-> OrElse(guess(DcKeys, lowerMap), Empty)]

\* a variant whose debit branch leaves the amount as it is
adjustSignCreditOnly(amount, dc) ==
    IF dc = DcC \/ Contains(dc, Kashi) THEN -Abs(amount) ELSE amount

\* the sign of the amount after the debit/credit adjustment
adjustSign(amount, dc) ==
    LET credited == IF dc = DcC \/ Contains(dc, Kashi) THEN -Abs(amount) ELSE amount
    IN  IF dc = DcD \/ Contains(dc, Kari) THEN Abs(credited) ELSE credited

\* the body of the loop of importRows up to the validity test
normalizeRow(r, mp) ==
    [month       |-> normalizeMonth(Lookup(r, mp.month)),
     accountCode |-> trim(StringOrEmpty(Lookup(r, mp.accountCode))),
     accountName |-> trim(StringOrEmpty(Lookup(r, mp.accountName))),
     amount      |-> adjustSign(toNumber(Lookup(r, mp.amount)),
                                toUpperCase(StringOrEmpty(Lookup(r, mp.dc)))),
     statement   |-> IF Contains(toUpperCase(StringOrEmpty(Lookup(r, mp.statement))), BS)
                     THEN "BS" ELSE "PL"]

\* a variant that tests the month only
isValidRowByMonth(row) == row.month # Empty

\* if (!month || !accountCode) continue
isValidRow(row) == row.month # Empty /\ row.accountCode # Empty

\* the TBRow[] that the loop of importRows collects
RECURSIVE collectRows(_, _)
collectRows(raw, mp) ==
    IF raw = <<>> THEN <<>>
    ELSE LET row == normalizeRow(Head(raw), mp)
         IN  IF isValidRow(row) THEN <<row>> \o collectRows(Tail(raw), mp)
             ELSE collectRows(Tail(raw), mp)

\* a variant that keeps the month of the first row
minMonthOfFirstRow(rows, minMonth) ==
    IF rows = <<>> THEN minMonth ELSE Head(rows).month

\* if (!minMonth || month < minMonth) minMonth = month, over the rows
RECURSIVE minMonthOf(_, _)
minMonthOf(rows, minMonth) ==
    IF rows = <<>> THEN minMonth
    ELSE minMonthOf(Tail(rows),
                    IF minMonth = NullString \/ StrLess(Head(rows).month, minMonth)
                    THEN Head(rows).month ELSE minMonth)

RECURSIVE maxMonthOf(_, _)
maxMonthOf(rows, maxMonth) ==
    IF rows = <<>> THEN maxMonth
    ELSE maxMonthOf(Tail(rows),
                    IF maxMonth = NullString \/ StrLess(maxMonth, Head(rows).month)
                    THEN Head(rows).month ELSE maxMonth)

\* a variant that infers the period whether or not one is set
inferFiscalAlways(fiscal, rows) ==
    LET minMonth == minMonthOf(rows, NullString)
        maxMonth == maxMonthOf(rows, NullString)
    IN  IF minMonth # NullString /\ maxMonth # NullString
        THEN [startMonth |-> minMonth, endMonth |-> maxMonth]
        ELSE fiscal

\* a variant that widens a period that is set to the months of the rows
inferFiscalWidening(fiscal, rows) ==
    LET minMonth == minMonthOf(rows, NullString)
        maxMonth == maxMonthOf(rows, NullString)
    IN  IF minMonth = NullString \/ maxMonth = NullString THEN fiscal
        ELSE IF fiscal = Null THEN [startMonth |-> minMonth, endMonth |-> maxMonth]
        ELSE [startMonth |-> IF StrLess(minMonth, fiscal.startMonth)
                             THEN minMonth ELSE fiscal.startMonth,
              endMonth   |-> IF StrLess(fiscal.endMonth, maxMonth)
                             THEN maxMonth ELSE fiscal.endMonth]

\* let fiscal = state.fiscal; if (!fiscal && minMonth && maxMonth) fiscal = ...
inferFiscal(fiscal, rows) ==
    LET minMonth == minMonthOf(rows, NullString)
        maxMonth == maxMonthOf(rows, NullString)
    IN  IF fiscal = Null /\ minMonth # NullString /\ maxMonth # NullString
        THEN [startMonth |-> minMonth, endMonth |-> maxMonth]
        ELSE fiscal

\* a variant that guesses a category for a BS account too
accountOfAnyStatement(r) ==
    LET name == IF r.accountName # Empty THEN r.accountName ELSE r.accountCode
    IN  [code |-> r.accountCode, name |-> name, statement |-> r.statement,
         plCategory |-> guessPLCategory(name)]

\* the Account of one row
accountOf(r) ==
    LET name == IF r.accountName # Empty THEN r.accountName ELSE r.accountCode
        base == [code |-> r.accountCode, name |-> name, statement |-> r.statement]
    IN  IF r.statement = "PL"
        THEN [code |-> base.code, name |-> base.name, statement |-> base.statement,
              plCategory |-> guessPLCategory(name)]
        ELSE base

extractAccounts(rows) ==
    uniqByCode([i \in 1..Len(rows) |-> accountOf(rows[i])], {})

\* ensureObject(obj[key])
ensureObject(obj, key) == IF key \in DOMAIN obj THEN obj[key] ELSE <<>>

\* a variant that stores the amount of the row over the earlier value
recordActualOverwrite(actuals, r) ==
    LET inner == ensureObject(actuals, r.month)
    IN  Put(actuals, r.month, Put(inner, r.accountCode, r.amount))

\* actuals[r.month][r.accountCode] = (actuals[r.month][r.accountCode] || 0) + r.amount
recordActual(actuals, r) ==
    LET inner == ensureObject(actuals, r.month)
        old   == IF r.accountCode \in DOMAIN inner THEN inner[r.accountCode] ELSE 0
    IN  Put(actuals, r.month, Put(inner, r.accountCode, old + r.amount))

\* for (const r of rows) recordActual
RECURSIVE recordActuals(_, _)
recordActuals(actuals, rows) ==
    IF rows = <<>> THEN actuals
    ELSE recordActuals(recordActual(actuals, Head(rows)), Tail(rows))

(***************************************************************************)
(* Forecast (forecastByMonth, totalYear, exportCSV).                       *)
(***************************************************************************)
\* useMemo months
months(st) ==
    IF st.fiscal = Null THEN <<>>
    ELSE monthRange(st.fiscal.startMonth, st.fiscal.endMonth)

\* state.accounts.filter(a => a.statement === "PL")
plAccounts(st) == SelectSeq(st.accounts, LAMBDA a : a.statement = "PL")

hasActual(st, m, code) ==
    m \in DOMAIN st.actuals /\ code \in DOMAIN st.actuals[m]

hasPlan(st, m, code) ==
    m \in DOMAIN st.plan /\ code \in DOMAIN st.plan[m]

\* a variant with || in place of ??: a 0 falls through to the next operand
effectiveValueFalsyFallsBack(st, m, code) ==
    IF hasActual(st, m, code) /\ st.actuals[m][code] # 0 THEN st.actuals[m][code]
    ELSE IF hasPlan(st, m, code) /\ st.plan[m][code] # 0 THEN st.plan[m][code]
    ELSE 0

\* a variant that looks at the plan only in a month without any actual
effectiveValueByMonth(st, m, code) ==
    IF m \in DOMAIN st.actuals /\ DOMAIN st.actuals[m] # {}
    THEN (IF hasActual(st, m, code) THEN st.actuals[m][code] ELSE 0)
    ELSE IF hasPlan(st, m, code) THEN st.plan[m][code]
    ELSE 0

\* actual[acc.code] ?? plan[acc.code] ?? 0
effectiveValue(st, m, code) ==
    IF hasActual(st, m, code) THEN st.actuals[m][code]
    ELSE IF hasPlan(st, m, code) THEN st.plan[m][code]
    ELSE 0

hasCategory(acc, cat) == "plCategory" \in DOMAIN acc /\ acc.plCategory = cat

\* a variant whose else branch counts every account that is not Revenue as
\* Expense
RECURSIVE sumCategoryElseExpense(_, _, _, _)
sumCategoryElseExpense(st, m, accs, cat) ==
    IF accs = <<>> THEN 0
    ELSE (IF hasCategory(Head(accs), "Revenue") = (cat = "Revenue")
          THEN effectiveValue(st, m, Head(accs).code) ELSE 0)
         + sumCategoryElseExpense(st, m, Tail(accs), cat)

\* the loop over plAccounts of one month: rev or exp summed by category
RECURSIVE sumCategory(_, _, _, _)
sumCategory(st, m, accs, cat) ==
    IF accs = <<>> THEN 0
    ELSE (IF hasCategory(Head(accs), cat)
          THEN effectiveValue(st, m, Head(accs).code) ELSE 0)
         + sumCategory(st, m, Tail(accs), cat)

forecastByMonth(st) ==
    LET ms == months(st)
    IN  [i \in 1..Len(ms) |->
            LET rev == sumCategory(st, ms[i], plAccounts(st), "Revenue")
                exp == sumCategory(st, ms[i], plAccounts(st), "Expense")
            IN  [month |-> ms[i], Revenue |-> rev, Expense |-> exp,
                 Profit |-> rev - exp]]

\* for (const r of forecastByMonth) { rev += r.Revenue; exp += r.Expense; }
totalYear(st) ==
    LET rows == forecastByMonth(st)
        acc[i \in 0..Len(rows)] ==
            IF i = 0 THEN [rev |-> 0, exp |-> 0]
            ELSE [rev |-> acc[i - 1].rev + rows[i].Revenue,
                  exp |-> acc[i - 1].exp + rows[i].Expense]
        sum == acc[Len(rows)]
    IN  [Revenue |-> sum.rev, Expense |-> sum.exp, Profit |-> sum.rev - sum.exp]

\* the rows of exportCSV, one per month, with the columns of the PL accounts
\* (a column is named after the code and the name of its account; codes are
\* unique, so the code names it here)
exportCSV(st) ==
    LET ms   == months(st)
        accs == plAccounts(st)
    IN  [i \in 1..Len(ms) |->
            [month |-> ms[i],
             cells |-> [code \in { a.code : a \in Range(accs) } |->
                           effectiveValue(st, ms[i], code)]]]

(***************************************************************************)
(* Files that the user can choose.  A row of Papa.parse with header: true  *)
(* maps every header to the text of its cell.                              *)
(***************************************************************************)
CanonicalHeaders == <<HMonth, HAccountCode, HAccountName, HAmount, HStatement, HDc>>

\* the header of the month column as a spreadsheet exports it
HMonthCap == <<"M", "o", "n", "t", "h">>

Row(month, code, name, amount, statement, dc) ==
    (HMonth :> month) @@ (HAccountCode :> code) @@ (HAccountName :> name)
        @@ (HAmount :> amount) @@ (HStatement :> statement) @@ (HDc :> dc)

\* the rows of the CSV of the help text and of downloadTemplate
ScenarioRows ==
    << Row(M2025_01, Code4000, Uriagedaka, Amt1000000, PL, DcC),
       Row(M2025_01, Code5000, UriageGenka, Amt300000, PL, DcD) >>

\* two rows of one month and account, a row without month, a BS row, a row
\* of the earliest month whose account code is blank, and rows whose dc cell
\* holds a debit marker, a credit marker, both markers and an unknown text;
\* the last row marks as PL the code that the BS row has introduced
MixedRows ==
    << Row(M2025_02Slash, Code4000Padded, SalesName, Amt0, PLLower, Empty),
       Row(M2025_02, Code4000, SalesName, AmtMinus5, PL, Empty),
       Row(Empty, Code4000, SalesName, Amt9, PL, Empty),
       Row(M2025_03, Code1000, CashName, Amt1Comma000, BS, DcLowerD),
       Row(M2024_12, <<" ">>, SalesName, Amt9, PL, Empty),
       Row(M2025_03, Code5000, UriageGenka, AmtMinus5, PL, Kari \o <<"u65B9">>),
       Row(M2025_01, Code6000, Kyuryo, Amt9, PL, Kashi \o <<"u65B9">>),
       Row(M2025_02, Code5000, UriageGenka, AmtMinus5, PL, Kashi \o Kari),
       Row(M2025_02, Code1000, CashName, AmtMinus5, PL, <<"X">>) >>

\* a file without a dc column: a row with amount 0 and a PL row with a
\* negative amount, whose account name holds no keyword
ZeroRows ==
    LET NoDc(r) == Restrict(r, DOMAIN r \ {HDc})
    IN  << NoDc(Row(M2025_03, Code4000, SalesName, Amt0, PL, Empty)),
           NoDc(Row(M2025_03, Code1000, CashName, AmtMinus5, PL, Empty)) >>

\* a file whose month header is capitalised
CapitalRows ==
    << (HMonthCap :> M2025_01) @@ (HAccountCode :> Code4000)
         @@ (HAccountName :> Uriagedaka) @@ (HAmount :> Amt9)
         @@ (HStatement :> PL) @@ (HDc :> DcC) >>

\* a file whose account-code header is Code
CodeCapFile ==
    LET HCodeCap == <<"C", "o", "d", "e">>
        r == Row(M2025_03, Code5000, UriageGenka, Amt9, PL, DcD)
    IN  [headers |-> <<HMonth, HCodeCap>> \o SubSeq(CanonicalHeaders, 3, 6),
         rows    |-> << (HCodeCap :> Code5000)
                          @@ Restrict(r, DOMAIN r \ {HAccountCode}) >>]

\* more rows than the preview holds
LongRows ==
    [i \in 1..(PreviewLimit + ExtraRows) |->
        Row(M2024_12, Code6000, Kyuryo, Amt1, PL, DcD)]

Files ==
    { [headers |-> CanonicalHeaders, rows |-> rows] :
        rows \in {ScenarioRows, MixedRows, LongRows} }
    \cup { [headers |-> SubSeq(CanonicalHeaders, 1, 5), rows |-> ZeroRows],
           [headers |-> <<HMonthCap>> \o Tail(CanonicalHeaders),
            rows |-> CapitalRows],
           CodeCapFile }

\* texts typed into the period inputs
PeriodInputs == {Empty, M2025_01, M2025_03}

\* numbers typed into the plan inputs
PlanAmounts == {0, 7}

PLCats == {"Revenue", "Expense", "Other"}

(***************************************************************************)
(* The state machine of the application.                                   *)
(***************************************************************************)
InitialState ==
    [fiscal |-> Null, accounts |-> <<>>, actuals |-> <<>>, plan |-> <<>>]

FinIdle == [op |-> "none"]

Init ==
    /\ state = InitialState
    /\ previewRows = <<>>
    /\ parsedRows = <<>>
    /\ mapping = <<>>
    /\ imports = 0
    /\ edits = 0
    /\ finInput = <<>>
    /\ finOut = FinIdle

\* Papa.parse complete callback
handleCSVFile(file) ==
    /\ file.rows # <<>>
    /\ parsedRows' = file.rows
    /\ previewRows' = SubSeq(file.rows, 1,
                             IF Len(file.rows) < PreviewLimit
                             THEN Len(file.rows) ELSE PreviewLimit)
    /\ mapping' = guessMapping(file.headers)
    /\ UNCHANGED <<state, imports, edits, finVars>>

\* a variant whose merge puts the accounts of the batch before prev.accounts
importRowsNewAccountsFirst ==
    /\ previewRows # <<>>
    /\ imports < MaxImports
    /\ LET rows == collectRows(previewRows, mapping)
       IN  state' = [state EXCEPT
                        !.fiscal   = inferFiscal(state.fiscal, rows),
                        !.accounts = uniqByCode(extractAccounts(rows) \o state.accounts, {}),
                        !.actuals  = recordActuals(state.actuals, rows)]
    /\ imports' = imports + 1
    /\ UNCHANGED <<previewRows, parsedRows, mapping, edits, finVars>>

\* importRows, from the test of previewRows.length to setState
importRows ==
    /\ previewRows # <<>>
    /\ imports < MaxImports
    /\ LET rows == collectRows(previewRows, mapping)
       IN  state' = [state EXCEPT
                        !.fiscal   = inferFiscal(state.fiscal, rows),
                        !.accounts = uniqByCode(state.accounts \o extractAccounts(rows), {}),
                        !.actuals  = recordActuals(state.actuals, rows)]
    /\ imports' = imports + 1
    /\ UNCHANGED <<previewRows, parsedRows, mapping, edits, finVars>>

\* a variant whose map gives the category to every account
updatePLCategoryOfAll(code, cat) ==
    /\ edits < MaxEdits
    /\ state' = [state EXCEPT !.accounts =
                    [i \in 1..Len(state.accounts) |->
                        Put(state.accounts[i], "plCategory", cat)]]
    /\ edits' = edits + 1
    /\ UNCHANGED <<previewRows, parsedRows, mapping, imports, finVars>>

\* prev.accounts.map(a => a.code === code ? { ...a, plCategory: cat } : a)
updatePLCategory(code, cat) ==
    /\ edits < MaxEdits
    /\ state' = [state EXCEPT !.accounts =
                    [i \in 1..Len(state.accounts) |->
                        IF state.accounts[i].code = code
                        THEN Put(state.accounts[i], "plCategory", cat)
                        ELSE state.accounts[i]]]
    /\ edits' = edits + 1
    /\ UNCHANGED <<previewRows, parsedRows, mapping, imports, finVars>>

\* a variant that adds the amount to the earlier plan value
setPlanAmountAdding(month, code, amount) ==
    /\ edits < MaxEdits
    /\ state' = [state EXCEPT !.plan =
                    Put(state.plan, month,
                        Put(ensureObject(state.plan, month), code,
                            amount + (IF hasPlan(state, month, code)
                                      THEN state.plan[month][code] ELSE 0)))]
    /\ edits' = edits + 1
    /\ UNCHANGED <<previewRows, parsedRows, mapping, imports, finVars>>

\* plan[month] = ensureObject(plan[month]); plan[month][code] = amount
setPlanAmount(month, code, amount) ==
    /\ edits < MaxEdits
    /\ state' = [state EXCEPT !.plan =
                    Put(state.plan, month,
                        Put(ensureObject(state.plan, month), code, amount))]
    /\ edits' = edits + 1
    /\ UNCHANGED <<previewRows, parsedRows, mapping, imports, finVars>>

\* a variant that empties the plan of every month
clearPlanForAccountAndOthers(code) ==
    /\ edits < MaxEdits
    /\ state' = [state EXCEPT !.plan = [m \in DOMAIN state.plan |-> <<>>]]
    /\ edits' = edits + 1
    /\ UNCHANGED <<previewRows, parsedRows, mapping, imports, finVars>>

\* for (const m of Object.keys(plan)) delete plan[m][code]
clearPlanForAccount(code) ==
    /\ edits < MaxEdits
    /\ state' = [state EXCEPT !.plan =
                    [m \in DOMAIN state.plan |->
                        Restrict(state.plan[m], DOMAIN state.plan[m] \ {code})]]
    /\ edits' = edits + 1
    /\ UNCHANGED <<previewRows, parsedRows, mapping, imports, finVars>>

\* the start-month and end-month inputs of the settings tab
setStartMonth(v) ==
    /\ edits < MaxEdits
    /\ state' = [state EXCEPT !.fiscal =
                    [startMonth |-> v,
                     endMonth   |-> IF state.fiscal = Null THEN Empty
                                    ELSE state.fiscal.endMonth]]
    /\ edits' = edits + 1
    /\ UNCHANGED <<previewRows, parsedRows, mapping, imports, finVars>>

setEndMonth(v) ==
    /\ edits < MaxEdits
    /\ state' = [state EXCEPT !.fiscal =
                    [startMonth |-> IF state.fiscal = Null THEN Empty
                                    ELSE state.fiscal.startMonth,
                     endMonth   |-> v]]
    /\ edits' = edits + 1
    /\ UNCHANGED <<previewRows, parsedRows, mapping, imports, finVars>>

\* the codes that the tables of the settings and plan tabs offer
plCodes(st) == { a.code : a \in Range(plAccounts(st)) }

\* the months of the plan table whose input is enabled for an account
planMonths(st, code) ==
    { m \in Range(months(st)) : ~hasActual(st, m, code) }

HandleCSVFile == \E file \in Files : handleCSVFile(file)

ImportRows == importRows

UpdatePLCategory ==
    \E code \in plCodes(state), cat \in PLCats : updatePLCategory(code, cat)

SetPlanAmount ==
    \E code \in plCodes(state) :
        \E month \in planMonths(state, code), amount \in PlanAmounts :
            setPlanAmount(month, code, amount)

ClearPlanForAccount ==
    \E code \in plCodes(state) : clearPlanForAccount(code)

SetStartMonth == \E v \in PeriodInputs : setStartMonth(v)

SetEndMonth == \E v \in PeriodInputs : setEndMonth(v)

Next ==
    \/ HandleCSVFile
    \/ ImportRows
    \/ UpdatePLCategory
    \/ SetPlanAmount
    \/ ClearPlanForAccount
    \/ SetStartMonth
    \/ SetEndMonth

Spec == Init /\ [][Next]_vars

(***************************************************************************)
(* The finance utilities applied to bounded inputs.                        *)
(***************************************************************************)
PLAmounts == (-MaxAmt)..MaxAmt

\* the optional fields of a MonthlyPL that are present
OptionalParts ==
    { <<>>,
      [taxes |-> MaxAmt],
      [nonOperating |-> -MaxAmt, extraordinary |-> -MaxAmt, taxes |-> MaxAmt] }

MonthlyPLs ==
    { [month |-> M2025_01, sales |-> s, cogs |-> c, sga |-> g, isActual |-> TRUE] @@ o :
        s \in PLAmounts, c \in {-MaxAmt, MaxAmt}, g \in {0, MaxAmt}, o \in OptionalParts }

ListsOver(S, n) == UNION { [1..k -> S] : k \in 0..n }

FinInit ==
    /\ state = InitialState
    /\ previewRows = <<>>
    /\ parsedRows = <<>>
    /\ mapping = <<>>
    /\ imports = 0
    /\ edits = 0
    /\ finInput \in ListsOver(MonthlyPLs, MaxMonths)
    /\ finOut = FinIdle

\* filtered.map(calculatePL), one month at a time
CalculatePL ==
    /\ finOut = FinIdle
    /\ \E i \in 1..Len(finInput) :
           finOut' = [op |-> "calculatePL", data |-> finInput[i],
                      result |-> calculatePL(finInput[i])]
    /\ UNCHANGED <<finInput, appVars>>

CalculateCumulative ==
    /\ finOut = FinIdle
    /\ finOut' = [op |-> "calculateCumulative", data |-> finInput,
                  result |-> calculateCumulative(finInput)]
    /\ UNCHANGED <<finInput, appVars>>

\* the placeholder of formatPercentage, an en dash
Placeholder == <<"u2013">>

\* if (value === null) return the placeholder; a number is handed to
\* Intl.NumberFormat with style percent and one fraction digit, whose text
\* is kept here as the number before the percent sign
formatPercentage(value) ==
    IF value = Null THEN Placeholder ELSE <<value, "%">>

\* subValue={formatPercentage(latestMonth.grossMargin)} and the like, the
\* sub-values of the two margin cards
kpiSubValues(latestMonth) ==
    [grossMargin     |-> formatPercentage(latestMonth.grossMargin),
     operatingMargin |-> formatPercentage(latestMonth.operatingMargin)]

\* the two margin fields of a data point of chartData,
\* (d.grossMargin || 0) * 100 and (d.operatingMargin || 0) * 100
chartPoint(d) ==
    LET TimesHundred(margin) ==
            IF margin = Null THEN Divide(0, 1)
            ELSE Divide(100 * margin.num, margin.den)
    IN  [grossMarginRate     |-> TimesHundred(d.grossMargin),
         operatingMarginRate |-> TimesHundred(d.operatingMargin)]

FinNext == CalculatePL \/ CalculateCumulative

FinSpec == FinInit /\ [][FinNext]_vars

M2025_06 == <<"2", "0", "2", "5", "-", "0", "6">>

FilterMonths == {M2024_12, M2025_01, M2025_02, M2025_03}

\* the months of the data and a month after all of them
PeriodBounds == FilterMonths \cup {M2025_06}

FilterItems ==
    { [month |-> m, sales |-> s, cogs |-> 0, sga |-> 0, isActual |-> TRUE] :
        m \in FilterMonths, s \in {0, 1} }

FilterInit ==
    /\ state = InitialState
    /\ previewRows = <<>>
    /\ parsedRows = <<>>
    /\ mapping = <<>>
    /\ imports = 0
    /\ edits = 0
    /\ finInput \in ListsOver(FilterItems, MaxItems)
    /\ finOut = FinIdle

FilterDataByPeriod ==
    /\ finOut = FinIdle
    /\ \E startMonth \in PeriodBounds, endMonth \in PeriodBounds :
           finOut' = [op |-> "filterDataByPeriod", data |-> finInput,
                      startMonth |-> startMonth, endMonth |-> endMonth,
                      result |-> filterDataByPeriod(finInput, startMonth, endMonth)]
    /\ UNCHANGED <<finInput, appVars>>

FilterNext == FilterDataByPeriod

FilterSpec == FilterInit /\ [][FilterNext]_vars

(***************************************************************************)
(* The plan tab, after the import of a file.                               *)
(***************************************************************************)
\* the state that importRows leaves when it imports MixedRows into the
\* initial state; the counter of edits leaves room for MaxPlanEdits edits
PlanInit ==
    /\ mapping = guessMapping(CanonicalHeaders)
    /\ previewRows = MixedRows
    /\ parsedRows = MixedRows
    /\ LET rows == collectRows(MixedRows, guessMapping(CanonicalHeaders))
       IN  state = [InitialState EXCEPT
                       !.fiscal   = inferFiscal(InitialState.fiscal, rows),
                       !.accounts = uniqByCode(InitialState.accounts
                                               \o extractAccounts(rows), {}),
                       !.actuals  = recordActuals(InitialState.actuals, rows)]
    /\ imports = 1
    /\ edits = MaxEdits - MaxPlanEdits
    /\ finInput = <<>>
    /\ finOut = FinIdle

PlanNext == SetPlanAmount \/ ClearPlanForAccount

PlanSpec == PlanInit /\ [][PlanNext]_vars

(***************************************************************************)
(* Handlers that run on the same rendered state.  A handler reads the      *)
(* `state` of the render it was created in and hands setState an updater;  *)
(* React applies the updaters later, each to the state the one before it   *)
(* has left.  Here `state` is the state React holds, finInput the state of *)
(* the render, and finOut the updaters not yet applied and the handlers    *)
(* that have run.                                                          *)
(***************************************************************************)
\* the values that importRows computes from the state of its render, which
\* its updater closes over
importUpdater(rendered, raw, mp) ==
    LET rows == collectRows(raw, mp)
    IN  [handler  |-> "importRows",
         rows     |-> rows,
         fiscal   |-> inferFiscal(rendered.fiscal, rows),
         accounts |-> extractAccounts(rows),
         actuals  |-> recordActuals(rendered.actuals, rows)]

\* the updater of setPlanAmount, which reads nothing of the render
planUpdater(month, code, amount) ==
    [handler |-> "setPlanAmount", month |-> month, code |-> code, amount |-> amount]

\* the updater applied to prev:
\* ({ ...prev, fiscal: fiscal || prev.fiscal, accounts: uniqBy([...prev.accounts, ...accounts]), actuals })
\* and ({ ...prev, plan }) with plan[month][code] = amount on a copy of prev.plan
applyUpdater(prev, u) ==
    IF u.handler = "importRows"
    THEN [prev EXCEPT
             !.fiscal   = IF u.fiscal # Null THEN u.fiscal ELSE prev.fiscal,
             !.accounts = uniqByCode(prev.accounts \o u.accounts, {}),
             !.actuals  = u.actuals]
    ELSE [prev EXCEPT
             !.plan = Put(prev.plan, u.month,
                          Put(ensureObject(prev.plan, u.month), u.code, u.amount))]

\* a file is loaded into a state that holds the import of MixedRows, and the
\* page is rendered
PendingInit ==
    /\ \E file \in Files :
          /\ parsedRows = file.rows
          /\ previewRows = SubSeq(file.rows, 1,
                                  IF Len(file.rows) < PreviewLimit
                                  THEN Len(file.rows) ELSE PreviewLimit)
          /\ mapping = guessMapping(file.headers)
    /\ state = applyUpdater(InitialState,
                            importUpdater(InitialState, MixedRows,
                                          guessMapping(CanonicalHeaders)))
    /\ finInput = state
    /\ finOut = [op |-> "setState", queue |-> <<>>, ran |-> <<>>]
    /\ imports = 1
    /\ edits = 0

\* a handler runs on the rendered state and queues its updater
Enqueue(u) ==
    /\ finOut.op = "setState"
    /\ Len(finOut.ran) < MaxPending
    /\ finOut' = [finOut EXCEPT !.queue = Append(@, u), !.ran = Append(@, u)]
    /\ UNCHANGED <<finInput, appVars>>

StartImportRows ==
    /\ previewRows # <<>>
    /\ Enqueue(importUpdater(finInput, previewRows, mapping))

StartSetPlanAmount ==
    \E code \in plCodes(finInput) :
        \E month \in planMonths(finInput, code), amount \in PlanAmounts :
            Enqueue(planUpdater(month, code, amount))

\* one of the queued updaters is applied to the state React holds
ApplyUpdater ==
    /\ finOut.op = "setState"
    /\ \E i \in 1..Len(finOut.queue) :
          /\ state' = applyUpdater(state, finOut.queue[i])
          /\ finOut' = [finOut EXCEPT
                            !.queue = SubSeq(@, 1, i - 1) \o SubSeq(@, i + 1, Len(@))]
    /\ UNCHANGED <<finInput, previewRows, parsedRows, mapping, imports, edits>>

PendingNext == StartImportRows \/ StartSetPlanAmount \/ ApplyUpdater

PendingSpec == PendingInit /\ [][PendingNext]_vars

(***************************************************************************)
(* The loop of monthRange, one iteration a step, on the period of a state  *)
(* that holds the rows of an import.                                       *)
(***************************************************************************)
\* texts of the two period bounds
RangeInputs == PeriodBounds \cup {Empty, M2025_02Slash}

RangeInit ==
    /\ mapping = guessMapping(CanonicalHeaders)
    /\ previewRows = MixedRows
    /\ parsedRows = MixedRows
    /\ imports = 1
    /\ edits = MaxEdits
    /\ \E startMonth \in RangeInputs, endMonth \in RangeInputs :
          /\ LET rows == collectRows(MixedRows, guessMapping(CanonicalHeaders))
             IN  state = [InitialState EXCEPT
                             !.fiscal   = [startMonth |-> startMonth,
                                           endMonth   |-> endMonth],
                             !.accounts = uniqByCode(extractAccounts(rows), {}),
                             !.actuals  = recordActuals(<<>>, rows)]
          /\ finInput = <<startMonth, endMonth>>
          /\ finOut = [op   |-> "monthRange",
                       cur  |-> dayjs(startMonth \o DayOne),
                       end  |-> dayjs(endMonth \o DayOne),
                       arr  |-> <<>>,
                       done |-> FALSE]

\* while (cur.isBefore(end) || cur.isSame(end)) { arr.push(...); cur = cur.add(1, "month") }
\* a comparison with an invalid date is false
RangeNext ==
    /\ finOut.op = "monthRange"
    /\ ~finOut.done
    /\ IF finOut.cur.valid /\ finOut.end.valid /\ finOut.cur.month <= finOut.end.month
       THEN finOut' = [finOut EXCEPT
                          !.arr = Append(@, formatYYYYMM(finOut.cur)),
                          !.cur = [finOut.cur EXCEPT !.month = @ + 1]]
       ELSE finOut' = [finOut EXCEPT !.done = TRUE]
    /\ UNCHANGED <<finInput, appVars>>

RangeSpec == RangeInit /\ [][RangeNext]_vars /\ WF_vars(RangeNext)

(***************************************************************************)
(* Properties of the finance utilities.                                    *)
(***************************************************************************)
\* an optional field of a MonthlyPL, absent counted as 0
FieldOrZero(d, f) == IF f \in DOMAIN d THEN d[f] ELSE 0

\* the sum of a field over a list
RECURSIVE SumField(_, _)
SumField(L, f) ==
    IF L = <<>> THEN 0 ELSE SumField(SubSeq(L, 1, Len(L) - 1), f) + FieldOrZero(L[Len(L)], f)

\* margin is the quotient profit / sales
IsQuotient(margin, profit, sales) ==
    /\ margin # Null
    /\ margin.den # 0
    /\ margin.num * sales = profit * margin.den

\* C5: calculatePL returns grossProfit = sales - cogs, operatingProfit =
\* grossProfit - sga and netIncome = operatingProfit + nonOperating +
\* extraordinary - taxes, an absent optional field counting as 0, and returns
\* every field of its input unchanged.
C5_ProfitFormulas ==
    finOut.op = "calculatePL" =>
        LET d == finOut.data
            r == finOut.result
        IN  /\ r.grossProfit = d.sales - d.cogs
            /\ r.operatingProfit = r.grossProfit - d.sga
            /\ r.netIncome = r.operatingProfit + FieldOrZero(d, "nonOperating")
                                + FieldOrZero(d, "extraordinary")
                                - FieldOrZero(d, "taxes")
            /\ DOMAIN r = DOMAIN d \cup {"grossProfit", "operatingProfit",
                                         "netIncome", "grossMargin",
                                         "operatingMargin"}
            /\ \A f \in DOMAIN d : r[f] = d[f]

\* calculatePL was applied to negative sales, with taxes present and
\* extraordinary absent
C5_Witness ==
    /\ finOut.op = "calculatePL"
    /\ finOut.data.sales < 0
    /\ finOut.data.cogs < 0
    /\ "taxes" \in DOMAIN finOut.data
    /\ "extraordinary" \notin DOMAIN finOut.data
    /\ finOut.result.netIncome = finOut.result.operatingProfit - finOut.data.taxes

\* C6: the margins of calculatePL are both null exactly when sales = 0; for
\* every other sales, negative sales included, they are grossProfit / sales
\* and operatingProfit / sales.
C6_ZeroDivisionPolicy ==
    finOut.op = "calculatePL" =>
        LET d == finOut.data
            r == finOut.result
        IN  /\ (r.grossMargin = Null) <=> (d.sales = 0)
            /\ (r.operatingMargin = Null) <=> (d.sales = 0)
            /\ d.sales # 0 =>
                   /\ IsQuotient(r.grossMargin, d.sales - d.cogs, d.sales)
                   /\ IsQuotient(r.operatingMargin, d.sales - d.cogs - d.sga, d.sales)

\* calculatePL was applied to negative sales and returned a margin
C6_Witness ==
    /\ finOut.op = "calculatePL"
    /\ finOut.data.sales < 0
    /\ finOut.result.grossMargin # Null
    /\ finOut.result.operatingMargin # Null

C8_CumulativeMargins ==
    finOut.op = "calculateCumulative" =>
        LET L      == finOut.data
            r      == finOut.result
            sales  == SumField(L, "sales")
            gross  == sales - SumField(L, "cogs")
            operat == gross - SumField(L, "sga")
        IN  /\ (r.grossMargin = Null) <=> (sales = 0)
            /\ (r.operatingMargin = Null) <=> (sales = 0)
            /\ sales # 0 =>
                   /\ IsQuotient(r.grossMargin, gross, sales)
                   /\ IsQuotient(r.operatingMargin, operat, sales)

\* calculateCumulative was applied to months whose non-zero sales cancel out
C8_Witness ==
    /\ finOut.op = "calculateCumulative"
    /\ Len(finOut.data) >= 2
    /\ finOut.data[1].sales # 0
    /\ SumField(finOut.data, "sales") = 0
    /\ finOut.result.grossMargin = Null
    /\ finOut.result.operatingMargin = Null

\* the positions of the items of data whose month lies in [startMonth, endMonth]
PositionsInPeriod(data, startMonth, endMonth) ==
    { i \in 1..Len(data) :
        ~StrLess(data[i].month, startMonth) /\ ~StrLess(endMonth, data[i].month) }

\* C9: filterDataByPeriod returns exactly the items whose month m satisfies
\* start <= m <= end as strings, both boundary months included, unaltered and
\* in their original order; it returns the empty list when there is none.
C9_FilterInclusive ==
    finOut.op = "filterDataByPeriod" =>
        LET data == finOut.data
            kept == PositionsInPeriod(data, finOut.startMonth, finOut.endMonth)
            r    == finOut.result
        IN  /\ Len(r) = Cardinality(kept)
            /\ \A i \in kept :
                   r[Cardinality({ j \in kept : j <= i })] = data[i]
            /\ \A i \in 1..Len(data) :
                   (data[i].month = finOut.startMonth \/ data[i].month = finOut.endMonth)
                       /\ StrLeq(finOut.startMonth, finOut.endMonth)
                   => i \in kept

\* filterDataByPeriod kept an item of the start month and an item of the end
\* month and dropped the item of a later month that stood between them
C9_Witness ==
    /\ finOut.op = "filterDataByPeriod"
    /\ Len(finOut.data) = 3
    /\ finOut.startMonth # finOut.endMonth
    /\ finOut.data[1].month = finOut.startMonth
    /\ StrLess(finOut.endMonth, finOut.data[2].month)
    /\ finOut.data[3].month = finOut.endMonth
    /\ finOut.result = <<finOut.data[1], finOut.data[3]>>

(***************************************************************************)
(* The monthly-PL conversion that feeds the profitability report.          *)
(***************************************************************************)
CogsKeywords == << <<"u539F", "u4FA1">>, <<"u4ED5", "u5165">> >>

TaxKeywords == << <<"u7A0E">> >>

\* the field of a MonthlyPL that a PL account contributes to
plFieldOf(acc) ==
    IF hasCategory(acc, "Revenue") THEN "sales"
    ELSE IF hasCategory(acc, "Expense")
         THEN (IF MatchesAny(acc.name, CogsKeywords) THEN "cogs"
               ELSE IF MatchesAny(acc.name, TaxKeywords) THEN "taxes"
               ELSE "sga")
    ELSE "nonOperating"

\* what the PL accounts contribute to one field in one month: a Revenue
\* account the absolute value of its effective value, the others the value
RECURSIVE sumPLField(_, _, _, _)
sumPLField(st, m, accs, f) ==
    IF accs = <<>> THEN 0
    ELSE (IF plFieldOf(Head(accs)) = f
          THEN (IF f = "sales" THEN Abs(effectiveValue(st, m, Head(accs).code))
                ELSE effectiveValue(st, m, Head(accs).code))
          ELSE 0)
         + sumPLField(st, m, Tail(accs), f)

\* isActualMonth(m)
isActualMonth(st, m) == m \in DOMAIN st.actuals /\ DOMAIN st.actuals[m] # {}

toMonthlyPL(st, m) ==
    [month        |-> m,
     sales        |-> sumPLField(st, m, plAccounts(st), "sales"),
     cogs         |-> sumPLField(st, m, plAccounts(st), "cogs"),
     sga          |-> sumPLField(st, m, plAccounts(st), "sga"),
     nonOperating |-> sumPLField(st, m, plAccounts(st), "nonOperating"),
     taxes        |-> sumPLField(st, m, plAccounts(st), "taxes"),
     isActual     |-> isActualMonth(st, m)]

(***************************************************************************)
(* Properties of the application.                                          *)
(***************************************************************************)
\* the (month, account code) pairs of a ledger
KeysOf(ledger) ==
    UNION { { <<m, c>> : c \in DOMAIN ledger[m] } : m \in DOMAIN ledger }

\* the (month, account code) pairs of normalised rows
KeysOfRows(rows) ==
    { <<rows[i].month, rows[i].accountCode>> : i \in 1..Len(rows) }

\* the sum of the amounts of the rows of one month and account
RECURSIVE BatchAmount(_, _, _)
BatchAmount(rows, m, c) ==
    IF rows = <<>> THEN 0
    ELSE BatchAmount(SubSeq(rows, 1, Len(rows) - 1), m, c)
         + (IF rows[Len(rows)].month = m /\ rows[Len(rows)].accountCode = c
            THEN rows[Len(rows)].amount ELSE 0)

\* the ledger after the step is the ledger before it plus the rows
Accumulated(rows) ==
    LET before == KeysOf(state.actuals)
        after  == KeysOf(state'.actuals)
    IN  /\ after = before \cup KeysOfRows(rows)
        /\ \A k \in after :
               state'.actuals[k[1]][k[2]] =
                   (IF k \in before THEN state.actuals[k[1]][k[2]] ELSE 0)
                   + BatchAmount(rows, k[1], k[2])

\* the step is an import
IsImport == imports' = imports + 1

\* the account of a code, in a state
HasAccount(st, code, cat) ==
    \E i \in 1..Len(st.accounts) :
        st.accounts[i].code = code /\ hasCategory(st.accounts[i], cat)

\* C1: an actual, once imported, stays in the ledger through every later
\* step, and wherever there is an actual (a 0 included) the effective value,
\* and with it the cell that exportCSV writes, is the actual and not the plan.
C1_ActualsWin ==
    /\ [][ KeysOf(state.actuals) \subseteq KeysOf(state'.actuals) ]_vars
    /\ [](/\ \A k \in KeysOf(state.actuals) :
                effectiveValue(state, k[1], k[2]) = state.actuals[k[1]][k[2]]
          /\ \A row \in Range(exportCSV(state)) :
                \A code \in DOMAIN row.cells :
                    hasActual(state, row.month, code)
                    => row.cells[code] = state.actuals[row.month][code])

\* an imported actual of 0 stands beside a plan of 7 for the same month of the
\* period and the same PL account
C1_Witness ==
    /\ hasActual(state, M2025_03, Code4000)
    /\ state.actuals[M2025_03][Code4000] = 0
    /\ hasPlan(state, M2025_03, Code4000)
    /\ state.plan[M2025_03][Code4000] = 7
    /\ Code4000 \in plCodes(state)
    /\ M2025_03 \in Range(months(state))

\* C2: an import leaves in actuals[m][c] its earlier value (0 if absent) plus
\* the sum of the sign-adjusted amounts of the valid rows of the batch for
\* (m, c); rows of one (m, c) add up and overwrite nothing.
C2_AdditiveAccumulation ==
    [][ IsImport => Accumulated(collectRows(previewRows, mapping)) ]_vars

\* two rows of the batch (0 and -5) were added to the -5 of an earlier import
C2_Witness ==
    /\ imports = 2
    /\ hasActual(state, M2025_02, Code4000)
    /\ state.actuals[M2025_02][Code4000] = -10

\* C3: an import accumulates every valid row of the parsed file into actuals.
C3_EveryFileRowImported ==
    [][ IsImport => Accumulated(collectRows(parsedRows, mapping)) ]_vars

\* C4: importing the two rows of the scenario into the empty state seeds 4000
\* as Revenue with actual -1,000,000 and 5000 as Expense with actual 300,000,
\* and the monthly PL of 2025-01 has sales 1,000,000, cogs 300,000 and
\* grossProfit 700,000.
C4_Scenario ==
    [][ (IsImport /\ state = InitialState /\ previewRows = ScenarioRows) =>
            /\ HasAccount(state', Code4000, "Revenue")
            /\ hasActual(state', M2025_01, Code4000)
            /\ state'.actuals[M2025_01][Code4000] = -1000000
            /\ HasAccount(state', Code5000, "Expense")
            /\ hasActual(state', M2025_01, Code5000)
            /\ state'.actuals[M2025_01][Code5000] = 300000
            /\ LET pl == calculatePL(toMonthlyPL(state', M2025_01))
               IN  /\ pl.sales = 1000000
                   /\ pl.cogs = 300000
                   /\ pl.grossProfit = 700000
      ]_vars

\* the months of normalised rows
MonthsOfRows(rows) == { rows[i].month : i \in 1..Len(rows) }

\* the least and the greatest string of a non-empty set
LeastMonth(S) == CHOOSE m \in S : \A n \in S : StrLeq(m, n)

GreatestMonth(S) == CHOOSE m \in S : \A n \in S : StrLeq(n, m)

\* C10: an import that finds the period set leaves it as it is.
C10_ExplicitPeriodWins ==
    [][ (IsImport /\ state.fiscal # Null) => state'.fiscal = state.fiscal ]_vars

\* the start month was typed in before any import, and the import of a batch
\* of earlier months has left the period as typed
C10_Witness ==
    /\ imports = 1
    /\ edits = 1
    /\ state.fiscal = [startMonth |-> M2025_03, endMonth |-> Empty]
    /\ DOMAIN state.actuals = {M2025_01}

\* C11: an import that finds the period unset sets it to the least and the
\* greatest month, as strings, of the rows it imports, and leaves it unset
\* when it imports no row.
C11_PeriodInference ==
    [][ (IsImport /\ state.fiscal = Null) =>
            LET S == MonthsOfRows(collectRows(previewRows, mapping))
            IN  IF S = {} THEN state'.fiscal = Null
                ELSE state'.fiscal = [startMonth |-> LeastMonth(S),
                                      endMonth   |-> GreatestMonth(S)]
      ]_vars

\* the period was inferred from a batch whose earliest month stands in a
\* later row than its latest month, after a row of the month between them
C11_Witness ==
    /\ imports = 1
    /\ edits = 0
    /\ DOMAIN state.actuals = {M2025_01, M2025_02, M2025_03}
    /\ state.fiscal = [startMonth |-> M2025_01, endMonth |-> M2025_03]

\* C12: whenever the period is set, its start month is not after its end
\* month, as strings.
C12_StartNotAfterEnd ==
    state.fiscal # Null =>
        StrLeq(state.fiscal.startMonth, state.fiscal.endMonth)

\* actuals[m][c] if present, else plan[m][c] if present, else 0
ValueOf(st, m, c) ==
    IF m \in DOMAIN st.actuals /\ c \in DOMAIN st.actuals[m] THEN st.actuals[m][c]
    ELSE IF m \in DOMAIN st.plan /\ c \in DOMAIN st.plan[m] THEN st.plan[m][c]
    ELSE 0

\* the accounts with statement PL and the category cat
AccountsOf(st, cat) ==
    { a \in Range(st.accounts) :
        a.statement = "PL" /\ "plCategory" \in DOMAIN a /\ a.plCategory = cat }

\* the sum of the values of a set of accounts in one month
RECURSIVE SumValues(_, _, _)
SumValues(st, m, accs) ==
    IF accs = {} THEN 0
    ELSE LET a == CHOOSE x \in accs : TRUE
         IN  ValueOf(st, m, a.code) + SumValues(st, m, accs \ {a})

\* C13: forecastByMonth has one row per month of the period, in order, with
\* Revenue the sum of the values (actual, else plan, else 0) of the PL
\* accounts of category Revenue, Expense that of the PL accounts of category
\* Expense, and Profit = Revenue - Expense; Other and BS accounts count in
\* none of them.
C13_MonthlyRollup ==
    /\ [i \in 1..Len(forecastByMonth(state)) |-> forecastByMonth(state)[i].month]
           = months(state)
    /\ \A r \in Range(forecastByMonth(state)) :
           /\ r.Revenue = SumValues(state, r.month, AccountsOf(state, "Revenue"))
           /\ r.Expense = SumValues(state, r.month, AccountsOf(state, "Expense"))
           /\ r.Profit = r.Revenue - r.Expense

\* account 5000 was made Other: in 2025-03 it holds 5 and the BS account 1000
\* holds 1000, and the row of 2025-03 has Revenue 0 and Expense 0, while the
\* row of 2025-01 has the Expense -9 of account 6000
C13_Witness ==
    /\ HasAccount(state, Code5000, "Other")
    /\ ValueOf(state, M2025_03, Code5000) = 5
    /\ ValueOf(state, M2025_03, Code1000) = 1000
    /\ \E r \in Range(forecastByMonth(state)) :
           r.month = M2025_03 /\ r.Revenue = 0 /\ r.Expense = 0
    /\ \E r \in Range(forecastByMonth(state)) :
           r.month = M2025_01 /\ r.Expense = -9 /\ r.Profit = 9

\* the category under which an account counts: its plCategory, or none
CategoryOf(a) == IF "plCategory" \in DOMAIN a THEN a.plCategory ELSE "none"

\* the step is an edit that changed the account list
IsReclassification == edits' = edits + 1 /\ state'.accounts # state.accounts

\* C14: a reclassification gives one account its new category and changes
\* nothing else of the account list, of actuals, plan and fiscal; in the
\* forecast computed next, every month has moved the value of that account
\* from the total of its old category to the total of its new one.
C14_Reclassification ==
    [][ IsReclassification =>
          \E i \in 1..Len(state.accounts) :
            /\ state'.actuals = state.actuals
            /\ state'.plan = state.plan
            /\ state'.fiscal = state.fiscal
            /\ Len(state'.accounts) = Len(state.accounts)
            /\ \A j \in 1..Len(state.accounts) :
                   j # i => state'.accounts[j] = state.accounts[j]
            /\ \A k \in {"code", "name", "statement"} :
                   state'.accounts[i][k] = state.accounts[i][k]
            /\ CategoryOf(state'.accounts[i]) \in PLCats
            /\ Len(forecastByMonth(state')) = Len(forecastByMonth(state))
            /\ \A n \in 1..Len(forecastByMonth(state)) :
                 \A c \in {"Revenue", "Expense"} :
                   LET v == ValueOf(state, forecastByMonth(state)[n].month,
                                    state.accounts[i].code)
                   IN  forecastByMonth(state')[n][c] =
                           forecastByMonth(state)[n][c]
                           - (IF CategoryOf(state.accounts[i]) = c THEN v ELSE 0)
                           + (IF CategoryOf(state'.accounts[i]) = c THEN v ELSE 0)
      ]_vars

\* account 5000, seeded as Revenue, was made Expense: its 5 of 2025-02 and
\* its 5 of 2025-03 both count as Expense
C14_Witness ==
    /\ edits = 1
    /\ HasAccount(state, Code5000, "Expense")
    /\ HasAccount(state, Code4000, "Revenue")
    /\ \E r \in Range(forecastByMonth(state)) :
           r.month = M2025_02 /\ r.Expense = 5 /\ r.Revenue = -5
    /\ \E r \in Range(forecastByMonth(state)) :
           r.month = M2025_03 /\ r.Expense = 5 /\ r.Revenue = 0

\* C15: no step other than a reclassification changes the category of an
\* account that exists; in particular an import whose batch holds rows of the
\* code of an account, under whatever name, leaves its category as it was.
C15_OverridePersists ==
    [][ ~IsReclassification =>
          \A a \in Range(state.accounts) :
            \E b \in Range(state'.accounts) :
                b.code = a.code /\ CategoryOf(b) = CategoryOf(a)
      ]_vars

\* account 4000 has the category Expense, which only the user gives it, and
\* the ledger holds the rows that two imports brought for it under the names
\* of the scenario file and of the mixed file
C15_Witness ==
    /\ imports = 2
    /\ edits = 1
    /\ HasAccount(state, Code4000, "Expense")
    /\ hasActual(state, M2025_01, Code4000)
    /\ state.actuals[M2025_01][Code4000] = -1000000
    /\ hasActual(state, M2025_02, Code4000)
    /\ state.actuals[M2025_02][Code4000] = -5

\* the account codes of a state
CodesOf(st) == { a.code : a \in Range(st.accounts) }

\* C16: after every step the account list holds one account per code of the
\* ledger of imported rows and no other, a BS account has no category, every
\* account of before the step is still there, and an account that the step
\* has added has the category guessPLCategory gives its name if it is a PL
\* account.
C16_AccountLifecycle ==
    [][ /\ \A i, j \in 1..Len(state'.accounts) :
               state'.accounts[i].code = state'.accounts[j].code => i = j
        /\ CodesOf(state') = { k[2] : k \in KeysOf(state'.actuals) }
        /\ CodesOf(state) \subseteq CodesOf(state')
        /\ \A b \in Range(state'.accounts) :
               /\ b.statement \in {"PL", "BS"}
               /\ b.statement = "BS" => "plCategory" \notin DOMAIN b
               /\ (b.code \notin CodesOf(state) /\ b.statement = "PL")
                      => CategoryOf(b) = guessPLCategory(b.name)
      ]_vars

\* two imports and a reclassification have left four accounts: the BS
\* account 1000 without category, account 6000 with the category guessed
\* from its name, and account 5000 with the category the user gave it
C16_Witness ==
    /\ imports = 2
    /\ edits = 1
    /\ Len(state.accounts) = 4
    /\ CodesOf(state) = {Code4000, Code5000, Code1000, Code6000}
    /\ \E a \in Range(state.accounts) :
           a.code = Code1000 /\ a.statement = "BS" /\ "plCategory" \notin DOMAIN a
    /\ HasAccount(state, Code6000, "Expense")
    /\ HasAccount(state, Code5000, "Other")

\* the account names that the rows of a batch carry for a code
NamesInBatch(rows, code) ==
    { rows[i].accountName :
        i \in { j \in 1..Len(rows) :
                  rows[j].accountCode = code /\ rows[j].accountName # Empty } }

\* C17: when the batch of an import carries, for the code of an existing
\* account, names that all differ from the name of the account, the account
\* has one of the imported names after the import.
C17_DisplayNameUpdated ==
    [][ IsImport =>
          \A a \in Range(state.accounts) :
            LET names == NamesInBatch(collectRows(previewRows, mapping), a.code)
            IN  (names # {} /\ a.name \notin names) =>
                    \E b \in Range(state'.accounts) :
                        b.code = a.code /\ b.name \in names
      ]_vars

\* the raw row resolves to a month and to an account code
IsValidRaw(r, mp) ==
    /\ normalizeMonth(Lookup(r, mp.month)) # Empty
    /\ trim(StringOrEmpty(Lookup(r, mp.accountCode))) # Empty

\* the normalised rows of the raw rows that are valid
ValidRowsOf(raw, mp) ==
    LET valid == SelectSeq(raw, LAMBDA r : IsValidRaw(r, mp))
    IN  [i \in 1..Len(valid) |-> normalizeRow(valid[i], mp)]

\* C18: an import has the effect of the batch without its rows whose resolved
\* month is empty or whose trimmed account code is empty: the ledger grows by
\* the valid rows alone, the accounts are those of before and of the valid
\* rows, and an inferred period spans the months of the valid rows.
C18_RowValidity ==
    [][ IsImport =>
          LET valid == ValidRowsOf(previewRows, mapping)
          IN  /\ Accumulated(valid)
              /\ CodesOf(state') =
                     CodesOf(state) \cup { valid[i].accountCode : i \in 1..Len(valid) }
              /\ (state.fiscal = Null /\ valid # <<>>) =>
                     /\ state'.fiscal # Null
                     /\ state'.fiscal.startMonth \in MonthsOfRows(valid)
                     /\ state'.fiscal.endMonth \in MonthsOfRows(valid)
                     /\ \A m \in MonthsOfRows(valid) :
                            /\ StrLeq(state'.fiscal.startMonth, m)
                            /\ StrLeq(m, state'.fiscal.endMonth)
      ]_vars

\* a batch with a row of no month and a row of 2024-12 with a blank code was
\* imported: the ledger has neither a blank code nor 2024-12, and the period
\* starts at 2025-01
C18_Witness ==
    /\ imports = 1
    /\ previewRows = MixedRows
    /\ Cardinality(KeysOf(state.actuals)) = 6
    /\ M2024_12 \notin DOMAIN state.actuals
    /\ Empty \notin CodesOf(state)
    /\ state.fiscal # Null
    /\ state.fiscal.startMonth = M2025_01

\* the upper-cased dc value denotes credit, debit
IsCredit(dc) == dc = DcC \/ Contains(dc, Kashi)

IsDebit(dc) == dc = DcD \/ Contains(dc, Kari)

\* the upper-cased dc value and the parsed amount of a raw row
DcOf(r, mp) == toUpperCase(StringOrEmpty(Lookup(r, mp.dc)))

ParsedAmount(r, mp) == toNumber(Lookup(r, mp.amount))

\* the amount stored for a row: debit comes first, then credit
SignedAmount(parsed, dc) ==
    IF IsDebit(dc) THEN Abs(parsed)
    ELSE IF IsCredit(dc) THEN -Abs(parsed)
    ELSE parsed

\* the valid rows with the amounts of SignedAmount
SignedRows(raw, mp) ==
    LET valid == SelectSeq(raw, LAMBDA r : IsValidRaw(r, mp))
    IN  [i \in 1..Len(valid) |->
            [month       |-> normalizeMonth(Lookup(valid[i], mp.month)),
             accountCode |-> trim(StringOrEmpty(Lookup(valid[i], mp.accountCode))),
             amount      |-> SignedAmount(ParsedAmount(valid[i], mp),
                                          DcOf(valid[i], mp))]]

\* C19 as stated: the amount that an import stores for a row is -|parsed| when
\* the upper-cased dc denotes credit, +|parsed| when it denotes debit, and the
\* parsed amount when dc denotes neither.
C19_SignAsStated ==
    [][ IsImport =>
          \A r \in Range(previewRows) :
            LET stored == normalizeRow(r, mapping).amount
                parsed == ParsedAmount(r, mapping)
                dc     == DcOf(r, mapping)
            IN  /\ IsCredit(dc) => stored = -Abs(parsed)
                /\ IsDebit(dc) => stored = Abs(parsed)
                /\ (~IsCredit(dc) /\ ~IsDebit(dc)) => stored = parsed
      ]_vars

\* C19: the amount that an import stores for a row is +|parsed| when the
\* upper-cased dc denotes debit, -|parsed| when it denotes credit and not
\* debit, and the parsed amount when dc denotes neither (unmapped, empty or
\* unrecognised); the ledger accumulates these amounts.
C19_SignAdjustment ==
    [][ IsImport =>
          /\ \A r \in Range(previewRows) :
                normalizeRow(r, mapping).amount =
                    SignedAmount(ParsedAmount(r, mapping), DcOf(r, mapping))
          /\ Accumulated(SignedRows(previewRows, mapping))
      ]_vars

\* a debit of -5 is stored as 5, a credit of 9 as -9, a -5 with both markers
\* as 5, a -5 with an unrecognised dc as -5, and a -5 of a file without a dc
\* column as -5, added to the 1,000 of a debit row
C19_Witness ==
    /\ imports = 2
    /\ hasActual(state, M2025_03, Code5000) /\ state.actuals[M2025_03][Code5000] = 5
    /\ hasActual(state, M2025_01, Code6000) /\ state.actuals[M2025_01][Code6000] = -9
    /\ hasActual(state, M2025_02, Code5000) /\ state.actuals[M2025_02][Code5000] = 5
    /\ hasActual(state, M2025_02, Code1000) /\ state.actuals[M2025_02][Code1000] = -5
    /\ hasActual(state, M2025_03, Code1000) /\ state.actuals[M2025_03][Code1000] = 995

\* no loaded row has the column that the mapping names for the field
MissingColumn(field) ==
    \A r \in Range(previewRows) : mapping[field] \notin DOMAIN r

\* C20: an import under a mapping whose month column or whose account-code
\* column is in none of the loaded rows leaves fiscal, accounts, actuals and
\* plan as they were; and while no rows are loaded no step changes the
\* accounts or the actuals.
C20_NoDataImport ==
    [][ /\ (IsImport /\ (MissingColumn("month") \/ MissingColumn("accountCode"))) =>
              /\ state'.fiscal = state.fiscal
              /\ state'.accounts = state.accounts
              /\ state'.actuals = state.actuals
              /\ state'.plan = state.plan
        /\ previewRows = <<>> =>
              /\ state'.accounts = state.accounts
              /\ state'.actuals = state.actuals
      ]_vars

\* two imports were made, one of them of the file whose month header is
\* capitalised, and the state holds the rows of the scenario alone
C20_Witness ==
    /\ imports = 2
    /\ edits = 0
    /\ previewRows = CapitalRows
    /\ MissingColumn("month")
    /\ state.fiscal = [startMonth |-> M2025_01, endMonth |-> M2025_01]
    /\ Len(state.accounts) = 2
    /\ KeysOf(state.actuals) = {<<M2025_01, Code4000>>, <<M2025_01, Code5000>>}
    /\ state.actuals[M2025_01][Code4000] = -1000000
    /\ state.plan = <<>>

(***************************************************************************)
(* Properties of the plan tab.                                             *)
(***************************************************************************)
\* the step changes neither the period, the accounts nor the actuals
PlanOnly ==
    /\ state'.fiscal = state.fiscal
    /\ state'.accounts = state.accounts
    /\ state'.actuals = state.actuals

\* C21: a step setPlanAmount(m, c, x) leaves plan[m][c] = x whatever the
\* plan held there before, every other plan entry as it was, and the period,
\* the accounts and the actuals unchanged.
C21_SetPlanOverwrites ==
    [][ \A c \in plCodes(state) :
          \A m \in Range(months(state)), x \in PlanAmounts :
            setPlanAmount(m, c, x) =>
                /\ hasPlan(state', m, c)
                /\ state'.plan[m][c] = x
                /\ KeysOf(state'.plan) = KeysOf(state.plan) \cup {<<m, c>>}
                /\ \A k \in KeysOf(state.plan) \ {<<m, c>>} :
                       state'.plan[k[1]][k[2]] = state.plan[k[1]][k[2]]
                /\ PlanOnly
      ]_vars

\* after two edits the plan holds the single entry 7: the second edit has set
\* the cell that the first had set (to 0 or to 7), or has followed a clear
C21_Witness ==
    /\ edits = MaxEdits - MaxPlanEdits + 2
    /\ KeysOf(state.plan) = {<<M2025_01, Code4000>>}
    /\ state.plan[M2025_01][Code4000] = 7

\* C22: a step clearPlanForAccount(code) leaves no month with a plan entry of
\* the account, so that its effective value is the actual if there is one and
\* 0 otherwise; the plan entries of the other accounts, the period, the
\* accounts and the actuals are unchanged.
C22_ClearPlanForAccount ==
    [][ \A code \in plCodes(state) :
          clearPlanForAccount(code) =>
            /\ KeysOf(state'.plan) = { k \in KeysOf(state.plan) : k[2] # code }
            /\ \A k \in KeysOf(state'.plan) :
                   state'.plan[k[1]][k[2]] = state.plan[k[1]][k[2]]
            /\ \A m \in Range(months(state')) \cup DOMAIN state'.plan :
                   effectiveValue(state', m, code) =
                       IF hasActual(state', m, code)
                       THEN state'.actuals[m][code] ELSE 0
            /\ PlanOnly
      ]_vars

\* the plan of 6000 was cleared, which left the object of its month empty,
\* while the entry of 4000 is still there
C22_Witness ==
    /\ M2025_02 \in DOMAIN state.plan
    /\ state.plan[M2025_02] = <<>>
    /\ hasPlan(state, M2025_01, Code4000)
    /\ state.plan[M2025_01][Code4000] = 7
    /\ effectiveValue(state, M2025_02, Code6000) = 0

(***************************************************************************)
(* Properties of monthRange.                                               *)
(***************************************************************************)
\* the calendar month after a month YYYY-MM
MonthAfter(m) ==
    LET year  == DigitsValue(SubSeq(m, 1, 4))
        month == DigitsValue(SubSeq(m, 6, 7))
    IN  IF month = 12 THEN FourDigits(year + 1) \o <<"-", "0", "1">>
        ELSE FourDigits(year) \o <<"-">> \o TwoDigits(month + 1)

\* the loop has returned arr for the bounds of finInput
RangeReturned == finOut.op = "monthRange" /\ finOut.done

\* C23: the loop of monthRange ends for every pair of bounds; for bounds
\* YYYY-MM with start <= end it returns start first, end last and between
\* them each month followed by the next calendar month (December by January
\* of the next year); for start > end it returns the empty sequence, and then
\* forecastByMonth is empty and totalYear is 0 although actuals are stored.
C23_MonthRange ==
    /\ <>RangeReturned
    /\ [](RangeReturned =>
            LET startMonth == finInput[1]
                endMonth   == finInput[2]
                arr        == finOut.arr
            IN  /\ arr = monthRange(startMonth, endMonth)
                /\ arr = months(state)
                /\ ({startMonth, endMonth} \subseteq PeriodBounds
                        /\ StrLeq(startMonth, endMonth)) =>
                       /\ arr # <<>>
                       /\ arr[1] = startMonth
                       /\ arr[Len(arr)] = endMonth
                       /\ \A i \in 1..(Len(arr) - 1) :
                              /\ arr[i + 1] = MonthAfter(arr[i])
                              /\ StrLess(arr[i], arr[i + 1])
                /\ ({startMonth, endMonth} \subseteq PeriodBounds
                        /\ StrLess(endMonth, startMonth)) =>
                       /\ arr = <<>>
                       /\ forecastByMonth(state) = <<>>
                       /\ totalYear(state) = [Revenue |-> 0, Expense |-> 0, Profit |-> 0])

\* the loop has returned the four months from December 2024 to March 2025
C23_Witness ==
    /\ RangeReturned
    /\ finInput = <<M2024_12, M2025_03>>
    /\ finOut.arr = <<M2024_12, M2025_01, M2025_02, M2025_03>>

(***************************************************************************)
(* Properties of the column mapping.                                       *)
(***************************************************************************)
\* C24: once a file is loaded, the mapping of month, accountCode,
\* accountName, amount and statement is a header of the file, so that the
\* mapped column is a column of its rows, and dc is a header or empty.
C24_MappingIsHeader ==
    previewRows # <<>> =>
        LET headers == DOMAIN previewRows[1]
        IN  /\ \A field \in {"month", "accountCode", "accountName",
                              "amount", "statement"} :
                   /\ mapping[field] \in headers
                   /\ \A r \in Range(previewRows) :
                          Lookup(r, mapping[field]) = r[mapping[field]]
            /\ mapping.dc \in headers \cup {Empty}

(***************************************************************************)
(* Properties of handlers that run on the same rendered state.             *)
(***************************************************************************)
\* the rows of the imports among the handlers that have run, in order
RECURSIVE RowsOfRan(_)
RowsOfRan(ran) ==
    IF ran = <<>> THEN <<>>
    ELSE (IF Head(ran).handler = "importRows" THEN Head(ran).rows ELSE <<>>)
         \o RowsOfRan(Tail(ran))

\* every updater of the handlers that have run has been applied
AllApplied == finOut.op = "setState" /\ finOut.queue = <<>>

\* C25: when the updaters of the handlers that ran on one rendered state
\* have all been applied, in whatever order, the actuals are those of the
\* rendered state plus the rows of every import among them, and the plan
\* holds an amount set for every cell that a setPlanAmount among them set.
C25_NoLostUpdate ==
    AllApplied =>
        /\ state.actuals = recordActuals(finInput.actuals, RowsOfRan(finOut.ran))
        /\ \A u \in Range(finOut.ran) :
               u.handler = "setPlanAmount" =>
                   /\ hasPlan(state, u.month, u.code)
                   /\ \E v \in Range(finOut.ran) :
                          /\ v.handler = "setPlanAmount"
                          /\ v.month = u.month /\ v.code = u.code
                          /\ state.plan[u.month][u.code] = v.amount

(***************************************************************************)
(* Properties of the views of the report.                                  *)
(***************************************************************************)
\* the value of a chart data point is a number
IsNumber(v) == "num" \in DOMAIN v

\* C26: formatPercentage(null) is the placeholder, and for a monthly or
\* cumulative result whose grossMargin or operatingMargin is null the
\* sub-value of the margin card and the margin of the chart data point are
\* the placeholder, not a number.
C26_NullMarginPlaceholder ==
    /\ formatPercentage(Null) = Placeholder
    /\ finOut.op \in {"calculatePL", "calculateCumulative"} =>
          /\ finOut.result.grossMargin = Null =>
                /\ kpiSubValues(finOut.result).grossMargin = Placeholder
                /\ ~IsNumber(chartPoint(finOut.result).grossMarginRate)
          /\ finOut.result.operatingMargin = Null =>
                /\ kpiSubValues(finOut.result).operatingMargin = Placeholder
                /\ ~IsNumber(chartPoint(finOut.result).operatingMarginRate)

(***************************************************************************)
(* Properties of the classifier and of the accounts.                       *)
(***************************************************************************)
\* the lower-cased name contains one of the keywords
HasKeyword(name, keywords) ==
    \E k \in Range(keywords) : Contains(toLowerCase(name), k)

\* C27: a PL account that an import adds has the category Revenue when its
\* lower-cased name contains a revenue keyword, whether or not it contains an
\* expense keyword too, otherwise Expense when it contains an expense
\* keyword, otherwise Other.
C27_ClassifierSeed ==
    [][ IsImport =>
          \A b \in Range(state'.accounts) :
            (b.code \notin CodesOf(state) /\ b.statement = "PL") =>
                CategoryOf(b) =
                    IF HasKeyword(b.name, RevenueKeywords) THEN "Revenue"
                    ELSE IF HasKeyword(b.name, ExpenseKeywords) THEN "Expense"
                    ELSE "Other"
      ]_vars

\* imports have seeded Sales (a capital letter) as Revenue, the name with a
\* revenue and an expense keyword as Revenue, the payroll account as Expense
\* and Cash as Other
C27_Witness ==
    /\ edits = 0
    /\ \E a \in Range(state.accounts) :
          a.name = SalesName /\ hasCategory(a, "Revenue")
    /\ \E a \in Range(state.accounts) :
          /\ a.name = UriageGenka /\ hasCategory(a, "Revenue")
          /\ HasKeyword(a.name, ExpenseKeywords)
    /\ \E a \in Range(state.accounts) :
          a.name = Kyuryo /\ hasCategory(a, "Expense")
    /\ \E a \in Range(state.accounts) :
          a.name = CashName /\ hasCategory(a, "Other")

\* the sum over a set of accounts of their entries of one month in a ledger
\* (the actuals or the plan), an account without entry counting 0
RECURSIVE SumEntries(_, _, _)
SumEntries(ledger, m, accs) ==
    IF accs = {} THEN 0
    ELSE LET a == CHOOSE x \in accs : TRUE
         IN  (IF m \in DOMAIN ledger /\ a.code \in DOMAIN ledger[m]
              THEN ledger[m][a.code] ELSE 0)
             + SumEntries(ledger, m, accs \ {a})

\* the accounts of a set without an actual in the month
WithoutActual(st, m, accs) == { a \in accs : ~hasActual(st, m, a.code) }

\* C28: in a month of the period that isActualMonth reports as actual, the
\* Revenue and the Expense of forecastByMonth are the actuals of the accounts
\* of the category that have one in the month plus the plan values of those
\* that have none.
C28_PrecedencePerAccount ==
    \A r \in Range(forecastByMonth(state)) :
        isActualMonth(state, r.month) =>
            /\ r.Revenue =
                   SumEntries(state.actuals, r.month, AccountsOf(state, "Revenue"))
                   + SumEntries(state.plan, r.month,
                                WithoutActual(state, r.month, AccountsOf(state, "Revenue")))
            /\ r.Expense =
                   SumEntries(state.actuals, r.month, AccountsOf(state, "Expense"))
                   + SumEntries(state.plan, r.month,
                                WithoutActual(state, r.month, AccountsOf(state, "Expense")))

\* 2025-02 is an actual month through the accounts 4000 and 5000, whose
\* actuals give the Revenue 0, and account 6000, without an actual there,
\* gives its plan of 7 as the Expense of the month
C28_Witness ==
    /\ isActualMonth(state, M2025_02)
    /\ ~hasActual(state, M2025_02, Code6000)
    /\ hasPlan(state, M2025_02, Code6000)
    /\ state.plan[M2025_02][Code6000] = 7
    /\ HasAccount(state, Code6000, "Expense")
    /\ \E r \in Range(forecastByMonth(state)) :
          r.month = M2025_02 /\ r.Revenue = 0 /\ r.Expense = 7 /\ r.Profit = -7

\* the months of the ledger of actuals that are not months of the period
MonthsOutside(st) == DOMAIN st.actuals \ Range(months(st))

\* the state without its actuals of the months of a set
WithoutMonths(st, outside) ==
    [st EXCEPT !.actuals = Restrict(@, DOMAIN @ \ outside)]

\* C29: an import into a state whose period is set leaves the period as it
\* is, whatever the months of its rows; the actuals of a month outside the
\* period stay in the ledger, forecastByMonth has no row for the month, and
\* totalYear is what it would be without those actuals.
C29_OutsidePeriod ==
    /\ [][ (IsImport /\ state.fiscal # Null) =>
              /\ state'.fiscal = state.fiscal
              /\ DOMAIN state.actuals \subseteq DOMAIN state'.actuals
              /\ \A k \in KeysOfRows(ValidRowsOf(previewRows, mapping)) :
                     hasActual(state', k[1], k[2])
          ]_vars
    /\ [](\A outside \in {MonthsOutside(state)} :
             outside # {} =>
                 /\ \A r \in Range(forecastByMonth(state)) : r.month \notin outside
                 /\ totalYear(state) = totalYear(WithoutMonths(state, outside)))

\* the period 2025-01 to 2025-01 was inferred by a first import; a second
\* import has stored actuals of 2025-02 and 2025-03, and the one row of
\* forecastByMonth and totalYear hold the amounts of 2025-01 alone
C29_Witness ==
    /\ imports = 2
    /\ edits = 0
    /\ state.fiscal = [startMonth |-> M2025_01, endMonth |-> M2025_01]
    /\ MonthsOutside(state) = {M2025_02, M2025_03}
    /\ state.actuals[M2025_02][Code4000] = -5
    /\ Len(forecastByMonth(state)) = 1
    /\ totalYear(state) = [Revenue |-> -700000, Expense |-> -9, Profit |-> -699991]

\* the first row of a code among normalised rows
FirstRowOf(rows, code) ==
    rows[CHOOSE i \in 1..Len(rows) :
            /\ rows[i].accountCode = code
            /\ \A j \in 1..(i - 1) : rows[j].accountCode # code]

\* the state without the actuals and the plan entries of a code
WithoutCode(st, code) ==
    [st EXCEPT
        !.actuals = [m \in DOMAIN @ |-> Restrict(@[m], DOMAIN @[m] \ {code})],
        !.plan    = [m \in DOMAIN @ |-> Restrict(@[m], DOMAIN @[m] \ {code})]]

\* C30: an account keeps through every step the statement it has; an import
\* gives a new code the statement of the first valid row of the code in the
\* batch; a BS account has no plCategory and is no PL account, whatever later
\* rows say, while the amounts of all the rows of its code enter the actuals;
\* and the rollups are what they would be without the entries of its code.
C30_StatementFixedByFirstRow ==
    /\ [][ /\ \A a \in Range(state.accounts) :
                \E b \in Range(state'.accounts) :
                    b.code = a.code /\ b.statement = a.statement
           /\ IsImport =>
                LET valid == ValidRowsOf(previewRows, mapping)
                IN  \A b \in Range(state'.accounts) :
                      /\ b.code \notin CodesOf(state) =>
                             b.statement = FirstRowOf(valid, b.code).statement
                      /\ b.statement = "BS" =>
                             \A k \in KeysOfRows(valid) :
                                k[2] = b.code =>
                                    state'.actuals[k[1]][k[2]] =
                                        (IF hasActual(state, k[1], k[2])
                                         THEN state.actuals[k[1]][k[2]] ELSE 0)
                                        + BatchAmount(valid, k[1], k[2])
          ]_vars
    /\ [](\A a \in Range(state.accounts) :
             a.statement = "BS" =>
                 /\ "plCategory" \notin DOMAIN a
                 /\ a.code \notin plCodes(state)
                 /\ forecastByMonth(state) = forecastByMonth(WithoutCode(state, a.code)))

\* code 1000 came in as BS; a PL row of the same batch and a PL row of a later
\* import have added their amounts to its actuals, and it is a BS account
\* without category, outside the PL accounts
C30_Witness ==
    /\ imports = 2
    /\ \E a \in Range(state.accounts) :
          a.code = Code1000 /\ a.statement = "BS" /\ "plCategory" \notin DOMAIN a
    /\ Code1000 \notin plCodes(state)
    /\ hasActual(state, M2025_02, Code1000)
    /\ state.actuals[M2025_02][Code1000] = -5
    /\ hasActual(state, M2025_03, Code1000)
    /\ state.actuals[M2025_03][Code1000] = 995
    /\ previewRows = ZeroRows

====
